---- MODULE Spec2Model ----
(***************************************************************************)
(* Device-communication protocol stack of mobile-cli-lib                   *)
(* (src/mobile/ios/ios-core.ts): the length-prefixed plist message channel *)
(* (WinSocket, PosixSocket), the completion policy of MobileDevice and the *)
(* remote-debug packet protocol (GDBServer, GDBStandardOutputAdapter,      *)
(* GDBSignalWatcher).                                                      *)
(*                                                                         *)
(* Bytes and UTF-16 code units are integers; buffers and strings are       *)
(* sequences of them (TLA+ sequences are 1-based, the source's 0-based).   *)
(* Each component has its own specification; the variables of the other   *)
(* components stay at their idle values.                                   *)
(***************************************************************************)
EXTENDS Integers, Sequences, FiniteSets, TLC

VARIABLES
    \* ---- PosixSocket (streaming receive) ----
    posixFormat,  \* PosixSocket.format
    frames,       \* ghost: the frames the device sends, in order
    inbound,      \* bytes of those frames not yet delivered by the socket
    buffer,       \* PosixSocket.buffer
    state,        \* PosixSocket.state (ReadState)
    length,       \* PosixSocket.length
    results,      \* one Future per receiveMessage call (= per 'data' listener)
    completed,    \* ghost: the buffers handed to a parser (bplist or XML), in order
    byteWise,     \* ghost: TRUE while every chunk delivered so far was 1 byte
    socketState,  \* net.Socket: "open", "ended" (peer sent FIN) or "destroyed"
    sentBytes,    \* ghost: the raw bytes the device sends when not built from frames
    transitions,  \* ghost: the state changes of the parser, in order
    \* ---- MobileDevice.isDataReceivingCompleted ----
    reply,        \* the reply dictionary passed in
    verdict,      \* what the call returned ([called |-> FALSE] before the call)
    \* ---- GDBServer.run ----
    hostIsWindows,\* $hostInfo.isWindows
    justlaunch,   \* $options.justlaunch
    argv,         \* the argument list passed to run
    gdbPc,        \* writes done by the call of run in progress
    runs,         \* calls of run that returned
    written,      \* the strings handed to this.socket.write, in order
    pipes,        \* the consumers piped to the socket, in order
    \* ---- GDBServer.send on its own ----
    packetArg,    \* the payload passed to send
    sent,         \* what the call did
    \* ---- inbound debug stream (output adapter, signal watcher) ----
    inboundPackets, \* ghost: the payloads of the packets the debug server sends
    debugInbound, \* their bytes not yet emitted by the socket
    delivered,    \* ghost: bytes emitted before the last chunk
    lastChunk,    \* the chunk emitted last
    utf8Pending,  \* GDBStandardOutputAdapter.utf8StringDecoder: incomplete character
    prevPending,  \* ghost: utf8Pending before the last chunk
    lastOutput,   \* what _transform passed to done for the last chunk
    stdout,       \* the text pushed to process.stdout so far
    process,      \* "running", "exit1" (process.exit(1)), "hung" or "crashed"
    adapterSeen,  \* ghost: the bytes passed to GDBStandardOutputAdapter._transform
    watcherSeen,  \* ghost: the bytes passed to GDBSignalWatcher._write
    \* ---- WinSocket.receiveMessage ----
    winFormat,    \* WinSocket.format
    peerAll,      \* ghost: everything the device sends before it closes
    peerBytes,    \* what of it recv has not delivered yet
    recvPc,       \* "start", "payload" (in the loop), "done" or "failed"
    lengthData,   \* data: the buffer read(4) returned
    declared,     \* l
    left,         \* left
    winReply,     \* reply
    returned,     \* what receiveMessage returned or that it threw
    zeroRead,     \* ghost: a recv returned 0
    shortRead,    \* ghost: a recv delivered fewer bytes than asked for
    \* ---- sendMessage ----
    hostInfo,     \* $hostInfo: which socket PlistService made
    wire,         \* the bytes put on the stream so far
    wireBefore,   \* ghost: wire before the last sendMessage
    lastMessage,  \* the argument of the last sendMessage
    sends,        \* calls of sendMessage
    writtenBytes, \* what the underlying write of the last call reported
    sendOutcome,  \* "none", or how the last sendMessage ended: "returned" or "threw"
    \* ---- property-list codec ----
    codecValue,   \* the dictionary passed to the encoder
    codecFormat,  \* the format passed to dictToPlistEncoding
    cstringPtrNull, \* whether CFStringGetCStringPtr returns NULL
    keysThrows,   \* whether _.keys refuses a value that is not an object
    codecPc,      \* "start", "encoded", "decoded" or "failed"
    encoding,     \* what dictToPlistEncoding returned or that it threw
    decoded,      \* what dictFromPlistEncoding returned
    winPlist,     \* what WinSocket.createPlist returned
    \* ---- Signal ----
    sigBindings,  \* Signal._bindings: [listener, isOnce, priority, ran], ascending priority
    prevParams,   \* Signal._prevParams
    memorize,     \* Signal.memorize
    shouldPropagate, \* Signal._shouldPropagate
    sigActive,    \* Signal.active
    disposed,     \* dispose() was called
    addOrder,     \* ghost: the bound listeners in the order their bindings were made
    lastDispatch, \* ghost: arguments of the latest dispatch of the active signal, null
                  \* after forget()
    memorized,    \* ghost: arguments of the latest dispatch of the active signal made
                  \* while memorize was true, null after forget()
    lastCall,     \* ghost: the last method call and what it did
    \* ---- WinSocket.sendAll ----
    sendAllPc,    \* "idle", "loop" (inside the while), "returned" or "failed"
    sendAllData,  \* the local `data`: what is still to be sent
    offered,      \* ghost: the buffer sendAll was called with
    accepted,     \* ghost: the bytes send() took, in order
    lastResult,   \* ghost: the result of the last send()
    sendTick,     \* ghost: flips with every call of send()
    \* ---- CommandsService ----
    commandHistory \* ghost: the calls made so far, each with what it did, in order

posixVars == <<posixFormat, frames, inbound, buffer, state, length, results, completed, byteWise,
               socketState, sentBytes, transitions>>
completionVars == <<reply, verdict>>
gdbVars == <<hostIsWindows, justlaunch, argv, gdbPc, runs, written, pipes>>
sendVars == <<packetArg, sent>>
streamVars == <<inboundPackets, debugInbound, delivered, lastChunk, utf8Pending,
                prevPending, lastOutput, stdout, process, adapterSeen, watcherSeen>>
recvVars == <<winFormat, peerAll, peerBytes, recvPc, lengthData, declared, left, winReply,
              returned, zeroRead, shortRead>>
plistSendVars == <<hostInfo, wire, wireBefore, lastMessage, sends, writtenBytes,
                   sendOutcome>>
codecVars == <<codecValue, codecFormat, cstringPtrNull, keysThrows, codecPc, encoding, decoded,
               winPlist>>
signalVars == <<sigBindings, prevParams, memorize, shouldPropagate, sigActive, disposed,
                addOrder, lastDispatch, memorized, lastCall>>
sendAllVars == <<sendAllPc, sendAllData, offered, accepted, lastResult, sendTick>>
commandsVars == <<commandHistory>>

vars == <<posixVars, completionVars, gdbVars, sendVars, streamVars, recvVars, plistSendVars,
          codecVars, signalVars, sendAllVars, commandsVars>>

\* What each component's actions leave alone
notPosixVars ==
    <<completionVars, gdbVars, sendVars, streamVars, recvVars, plistSendVars, codecVars, signalVars, sendAllVars, commandsVars>>
notCompletionVars ==
    <<posixVars, gdbVars, sendVars, streamVars, recvVars, plistSendVars, codecVars, signalVars, sendAllVars, commandsVars>>
notGdbVars ==
    <<posixVars, completionVars, sendVars, streamVars, recvVars, plistSendVars, codecVars, signalVars, sendAllVars, commandsVars>>
notSendVars ==
    <<posixVars, completionVars, gdbVars, streamVars, recvVars, plistSendVars, codecVars, signalVars, sendAllVars, commandsVars>>
notStreamVars ==
    <<posixVars, completionVars, gdbVars, sendVars, recvVars, plistSendVars, codecVars, signalVars, sendAllVars, commandsVars>>
notRecvVars ==
    <<posixVars, completionVars, gdbVars, sendVars, streamVars, plistSendVars, codecVars, signalVars, sendAllVars, commandsVars>>
notPlistSendVars ==
    <<posixVars, completionVars, gdbVars, sendVars, streamVars, recvVars, codecVars, signalVars, sendAllVars, commandsVars>>
notCodecVars ==
    <<posixVars, completionVars, gdbVars, sendVars, streamVars, recvVars, plistSendVars,
      signalVars, sendAllVars, commandsVars>>
notSignalVars ==
    <<posixVars, completionVars, gdbVars, sendVars, streamVars, recvVars, plistSendVars,
      codecVars, sendAllVars, commandsVars>>
notSendAllVars ==
    <<posixVars, completionVars, gdbVars, sendVars, streamVars, recvVars, plistSendVars,
      codecVars, signalVars, commandsVars>>
notCommandsVars ==
    <<posixVars, completionVars, gdbVars, sendVars, streamVars, recvVars, plistSendVars,
      codecVars, signalVars, sendAllVars>>
\* ------------------------------------------------------------------------
\* Generic helpers
\* ------------------------------------------------------------------------

\* All sequences over S of length 0..n
SeqsUpTo(S, n) == UNION {[1..k -> S] : k \in 0..n}

RECURSIVE Flatten(_)
Flatten(ss) == IF ss = <<>> THEN <<>> ELSE Head(ss) \o Flatten(Tail(ss))

\* JavaScript values, tagged with their typeof so that values of different
\* types can be held in one place
Undefined == [t |-> "undefined", s |-> "", n |-> 0, b |-> FALSE]
Str(x) == [t |-> "string", s |-> x, n |-> 0, b |-> FALSE]
Num(x) == [t |-> "number", s |-> "", n |-> x, b |-> FALSE]
Bool(x) == [t |-> "boolean", s |-> "", n |-> 0, b |-> x]

\* ToBoolean: undefined, "", 0 and false are falsy
Truthy(v) ==
    CASE v.t = "undefined" -> FALSE
      [] v.t = "string" -> v.s # ""
      [] v.t = "number" -> v.n # 0
      [] v.t = "boolean" -> v.b

\* a && b yields a when a is falsy, else b;  !a is a boolean
JsAnd(a, b) == IF Truthy(a) THEN b ELSE a
JsNot(a) == Bool(~Truthy(a))

\* ------------------------------------------------------------------------
\* Node Buffer primitives used by the channel
\* ------------------------------------------------------------------------

\* Index normalisation of Buffer.slice: negative indexes count from the end,
\* everything is clamped to [0, len]
ClampIndex(i, len) ==
    IF i < 0 THEN (IF i + len < 0 THEN 0 ELSE i + len)
    ELSE IF i > len THEN len ELSE i

\* buf.slice(start, end), 0-based, end exclusive
BufferSlice(buf, start, end) ==
    LET s == ClampIndex(start, Len(buf))
        e == ClampIndex(end, Len(buf))
    IN  IF e <= s THEN <<>> ELSE SubSeq(buf, s + 1, e)

\* buf.slice(start)
BufferSliceFrom(buf, start) == BufferSlice(buf, start, Len(buf))

\* buf.readInt32BE(0): big-endian, SIGNED 32 bit
ReadInt32BE(buf) ==
    (IF buf[1] >= 128 THEN buf[1] - 256 ELSE buf[1]) * 16777216
        + buf[2] * 65536 + buf[3] * 256 + buf[4]

\* bufferpack.pack(">i", [n]): 4 bytes, big-endian, two's complement
\* (\div rounds down and % is non-negative, which is two's complement)
Pack32BE(n) ==
    << (n \div 16777216) % 256, (n \div 65536) % 256, (n \div 256) % 256, n % 256 >>

\* CoreTypes.kCFPropertyListXMLFormat_v1_0 / kCFPropertyListBinaryFormat_v1_0
XmlFormat == 100
BinaryFormat == 200

\* plist.parse(text) of the external plist library: throws unless the text
\* starts like a document ('<', 60); the parsed value is represented by its text
XmlParse(text) ==
    IF Len(text) >= 1 /\ text[1] = 60
    THEN [kind |-> "value", text |-> text]
    ELSE [kind |-> "threw", text |-> <<>>]

\* ------------------------------------------------------------------------
\* PosixSocket: streaming receive (ios-core.ts 806-951)
\* ------------------------------------------------------------------------

\* Bounds of the PosixSocket specification
MaxFrames == 2
MaxCalls == 1

\* bplist-parser is an external library.  Payloads are scaled down to a
\* header byte (standing for the "bplist00" header the library insists on)
\* followed by at most one byte that stands for the encoded dictionary.
BplistHeader == 98
StatusCompleteByte == 1
StatusProgressByte == 2

\* The payloads the device sends: a final reply, a progress reply, and two
\* payloads the parser rejects (no header; empty)
PayloadSet ==
    { <<BplistHeader, StatusCompleteByte>>, <<BplistHeader, StatusProgressByte>>,
      <<7>>, <<>> }

\* A dictionary without Status and PercentComplete
NoMessage == [Status |-> Undefined, PercentComplete |-> Undefined]

\* bplistParser.parseBuffer(plistBuffer): throws (ok = FALSE) unless the
\* buffer starts with the header; returns an array holding one dictionary
ParseBuffer(plistBuffer) ==
    IF Len(plistBuffer) >= 1 /\ plistBuffer[1] = BplistHeader
    THEN [ok |-> TRUE,
          message |->
            IF Len(plistBuffer) >= 2 /\ plistBuffer[2] = StatusCompleteByte
            THEN [Status |-> Str("Complete"), PercentComplete |-> Undefined]
            ELSE IF Len(plistBuffer) >= 2 /\ plistBuffer[2] = StatusProgressByte
            THEN [Status |-> Str("CopyingApplication"), PercentComplete |-> Num(50)]
            ELSE NoMessage]
    ELSE [ok |-> FALSE, message |-> NoMessage]

\* A Future that nobody completed yet
\* (completions counts the calls of return and throw on it)
PendingFuture == [resolved |-> FALSE, failed |-> FALSE, value |-> NoMessage, completions |-> 0]

\* HandleMessage altered: the future is returned without asking
\* isResolved()
HandleMessageUnguarded(message, result) ==
    IF Truthy(message.Status) /\ message.Status = Str("Complete")
    THEN [resolved |-> TRUE, failed |-> FALSE, value |-> message,
          completions |-> result.completions + 1]
    ELSE result

\* Lines 845-869: the reply handling of one parsed message.  The future is
\* returned with the first message whose Status is "Complete"; the read of
\* message[0].Status that follows throws and is swallowed by the inner catch.
HandleMessage(message, result) ==
    IF Truthy(message.Status) /\ message.Status = Str("Complete") /\ ~result.resolved
    THEN [resolved |-> TRUE, failed |-> FALSE, value |-> message,
          completions |-> result.completions + 1]
    ELSE result

\* The parser's registers while one 'data' handler runs
\*   ps = [buffer, state, length, completed, result]

\* What one pass through the switch did: the state it left, the length
\* that state waited for, whether that many bytes were buffered, and the
\* number of bytes taken off the front of the buffer
Transition(ps, newBuffer) ==
    [from |-> ps.state, need |-> ps.length, enough |-> Len(ps.buffer) >= ps.length,
     removed |-> Len(ps.buffer) - Len(newBuffer),
     kept |-> newBuffer = BufferSliceFrom(ps.buffer, Len(ps.buffer) - Len(newBuffer))]

\* case ReadState.Length (lines 834-838)
LengthStep(ps) ==
    [ps EXCEPT !.length = ReadInt32BE(ps.buffer),
               !.buffer = BufferSliceFrom(ps.buffer, 4),
               !.state = "Plist",
               !.transitions = Append(ps.transitions,
                                      Transition(ps, BufferSliceFrom(ps.buffer, 4)))]

\* PlistStep altered: a parse failure leaves the frame in the buffer
PlistStepKeepsBadFrame(ps) ==
    LET plistBuffer == BufferSlice(ps.buffer, 0, ps.length)
        parsed == ParseBuffer(plistBuffer)
    IN  [ps EXCEPT !.result = IF parsed.ok THEN HandleMessage(parsed.message, ps.result)
                              ELSE ps.result,
                   !.completed = Append(ps.completed, [payload |-> plistBuffer, ok |-> parsed.ok]),
                   !.buffer = IF parsed.ok THEN BufferSliceFrom(ps.buffer, ps.length)
                              ELSE ps.buffer,
                   !.state = "Length",
                   !.length = 4]

\* case ReadState.Plist (lines 839-880): a parse failure is caught and logged,
\* the frame is sliced off all the same
PlistStep(ps) ==
    LET plistBuffer == BufferSlice(ps.buffer, 0, ps.length)
        parsed == ParseBuffer(plistBuffer)
    IN  [ps EXCEPT !.result = IF parsed.ok THEN HandleMessage(parsed.message, ps.result)
                              ELSE ps.result,
                   !.completed = Append(ps.completed, [payload |-> plistBuffer, ok |-> parsed.ok]),
                   !.buffer = BufferSliceFrom(ps.buffer, ps.length),
                   !.state = "Length",
                   !.length = 4,
                   !.transitions = Append(ps.transitions,
                                          Transition(ps, BufferSliceFrom(ps.buffer, ps.length)))]

\* LoopGuard altered: the loop stops when the buffer holds exactly what is needed
LoopGuardStrict(ps) == Len(ps.buffer) > ps.length

\* while (this.buffer.length >= this.length) (line 832)
LoopGuard(ps) == Len(ps.buffer) >= ps.length

RECURSIVE ParseLoop(_)
ParseLoop(ps) ==
    IF LoopGuard(ps)
    THEN ParseLoop(IF ps.state = "Length" THEN LengthStep(ps) ELSE PlistStep(ps))
    ELSE ps

\* The dictionary a parsed XML document stands for (scaled down like the
\* binary payloads: the byte after the '<' stands for the content)
XmlDictionary(text) ==
    IF Len(text) >= 2 /\ text[2] = StatusCompleteByte
    THEN [Status |-> Str("Complete"), PercentComplete |-> Undefined]
    ELSE IF Len(text) >= 2 /\ text[2] = StatusProgressByte
    THEN [Status |-> Str("CopyingApplication"), PercentComplete |-> Num(50)]
    ELSE NoMessage

\* XmlHandler altered: the future is returned only with a buffer that parses
XmlHandlerWaits(ps) ==
    LET parsed == XmlParse(ps.buffer)
    IN  [ps EXCEPT !.result = IF ~ps.result.resolved /\ parsed.kind = "value"
                              THEN [resolved |-> TRUE, failed |-> FALSE,
                                    value |-> XmlDictionary(parsed.text),
                                    completions |-> ps.result.completions + 1]
                              ELSE ps.result,
                   !.completed = Append(ps.completed,
                                        [payload |-> ps.buffer, ok |-> parsed.kind = "value"])]

\* The Xml branch of the 'data' listener (lines 886-896): the whole buffer
\* is parsed, a failure is swallowed and leaves parsedData = {}, and the
\* future is returned unless it is resolved already.  The buffer is left as
\* it is.
XmlHandler(ps) ==
    LET parsed == XmlParse(ps.buffer)
        parsedData == IF parsed.kind = "value" THEN XmlDictionary(parsed.text) ELSE NoMessage
    IN  [ps EXCEPT !.result = IF ~ps.result.resolved
                              THEN [resolved |-> TRUE, failed |-> FALSE, value |-> parsedData,
                                    completions |-> ps.result.completions + 1]
                              ELSE ps.result,
                   !.completed = Append(ps.completed,
                                        [payload |-> ps.buffer, ok |-> parsed.kind = "value"])]

\* One 'data' listener (lines 828-897): the chunk is appended to the buffer,
\* then the branch of the socket's format runs
DataHandler(ps, data) ==
    LET appended == [ps EXCEPT !.buffer = ps.buffer \o data]
    IN  IF posixFormat = BinaryFormat THEN ParseLoop(appended)
        ELSE IF posixFormat = XmlFormat THEN XmlHandler(appended)
        ELSE appended

\* The socket emits 'data': every registered listener runs, in registration
\* order, on the same chunk and the same PosixSocket fields
RECURSIVE EmitData(_, _, _, _)
EmitData(i, fields, futures, data) ==
    IF i > Len(futures) THEN [fields |-> fields, futures |-> futures]
    ELSE LET ps == DataHandler([buffer |-> fields.buffer, state |-> fields.state,
                                length |-> fields.length, completed |-> fields.completed,
                                transitions |-> fields.transitions,
                                result |-> futures[i]], data)
         IN  EmitData(i + 1,
                      [buffer |-> ps.buffer, state |-> ps.state, length |-> ps.length,
                       completed |-> ps.completed, transitions |-> ps.transitions],
                      [futures EXCEPT ![i] = ps.result], data)

\* A frame as the device writes it
FrameBytes(payload) == Pack32BE(Len(payload)) \o payload

RECURSIVE FramesBytes(_)
FramesBytes(fs) == IF fs = <<>> THEN <<>> ELSE FrameBytes(Head(fs)) \o FramesBytes(Tail(fs))

PosixInit ==
    /\ posixFormat = BinaryFormat
    /\ frames \in SeqsUpTo(PayloadSet, MaxFrames)
    /\ inbound = FramesBytes(frames)
    /\ buffer = <<>>
    /\ state = "Length"
    /\ length = 4
    /\ results = <<>>
    /\ completed = <<>>
    /\ byteWise = TRUE
    /\ socketState = "open"
    /\ sentBytes = <<>>
    /\ transitions = <<>>

\* PosixSocket.receiveMessage() (lines 824-905): a new Future and one more
\* 'data' listener on the socket
ReceiveMessageUpTo(calls) ==
    /\ Len(results) < calls
    /\ results' = Append(results, PendingFuture)
    /\ UNCHANGED <<posixFormat, frames, inbound, buffer, state, length, completed, byteWise,
                   socketState, sentBytes, transitions>>
    /\ UNCHANGED notPosixVars

ReceiveMessage == ReceiveMessageUpTo(MaxCalls)

\* The socket delivers the next n bytes as one chunk.  Without a listener the
\* stream does not flow.
SocketData ==
    /\ socketState = "open"
    /\ Len(results) >= 1
    /\ \E n \in 1..Len(inbound) :
         LET data == SubSeq(inbound, 1, n)
             out == EmitData(1, [buffer |-> buffer, state |-> state, length |-> length,
                                 completed |-> completed, transitions |-> transitions],
                            results, data)
         IN  /\ inbound' = SubSeq(inbound, n + 1, Len(inbound))
             /\ buffer' = out.fields.buffer
             /\ state' = out.fields.state
             /\ length' = out.fields.length
             /\ completed' = out.fields.completed
             /\ transitions' = out.fields.transitions
             /\ results' = out.futures
             /\ byteWise' = (byteWise /\ n = 1)
    /\ UNCHANGED <<posixFormat, frames, socketState, sentBytes>>
    /\ UNCHANGED notPosixVars

PosixNext == ReceiveMessage \/ SocketData

\* The socket while another component is looked at
PosixIdle ==
    /\ posixFormat = BinaryFormat /\ frames = <<>> /\ inbound = <<>> /\ buffer = <<>> /\ state = "Length"
    /\ length = 4 /\ results = <<>> /\ completed = <<>> /\ byteWise = TRUE
    /\ socketState = "open" /\ sentBytes = <<>> /\ transitions = <<>>


\* ---- A stream that opens with an arbitrary length prefix ----

MaxTrailing == 3

\* Length prefixes as the device may write them: small ones and ones with
\* the high bit set
PrefixSet ==
    { <<0, 0, 0, 1>>, <<0, 0, 0, 2>>, <<128, 0, 0, 0>>,
      <<255, 255, 255, 254>>, <<255, 255, 255, 255>> }

\* The socket is about to deliver one prefix and the bytes that follow it
LengthInit ==
    /\ posixFormat = BinaryFormat
    /\ frames = <<>>
    /\ \E prefix \in PrefixSet :
         \E trailing \in SeqsUpTo({BplistHeader, StatusCompleteByte}, MaxTrailing) :
            sentBytes = prefix \o trailing
    /\ inbound = sentBytes
    /\ buffer = <<>>
    /\ state = "Length"
    /\ length = 4
    /\ results = <<>>
    /\ completed = <<>>
    /\ byteWise = TRUE
    /\ socketState = "open"
    /\ transitions = <<>>

\* ---- The end of the connection ----

MaxCloseFrames == 2

\* A reply that returns the future, and a progress reply
CloseInit ==
    /\ posixFormat = BinaryFormat
    /\ frames \in SeqsUpTo({ <<BplistHeader, StatusCompleteByte>>,
                             <<BplistHeader, StatusProgressByte>> }, MaxCloseFrames)
    /\ inbound = FramesBytes(frames)
    /\ buffer = <<>>
    /\ state = "Length"
    /\ length = 4
    /\ results = <<>>
    /\ completed = <<>>
    /\ byteWise = TRUE
    /\ socketState = "open"
    /\ sentBytes = <<>>
    /\ transitions = <<>>

\* The 'error' listeners of lines 899-903: every future not yet resolved is
\* thrown
FailPending(futures) ==
    [i \in 1..Len(futures) |->
        IF futures[i].resolved THEN futures[i]
        ELSE [futures[i] EXCEPT !.resolved = TRUE, !.failed = TRUE,
                                !.completions = @ + 1]]

\* PosixSocket.close() (lines 947-950): socket.destroy() without an error
\* emits 'close' only, for which receiveMessage registered no listener
Close ==
    /\ socketState # "destroyed"
    /\ socketState' = "destroyed"
    /\ UNCHANGED <<posixFormat, frames, inbound, buffer, state, length, results, completed, byteWise,
                   sentBytes, transitions>>
    /\ UNCHANGED notPosixVars

\* The peer ends the stream: the socket emits 'end' (then 'close'), for
\* which receiveMessage registered no listener
PeerEnd ==
    /\ socketState = "open"
    /\ socketState' = "ended"
    /\ UNCHANGED <<posixFormat, frames, inbound, buffer, state, length, results, completed, byteWise,
                   sentBytes, transitions>>
    /\ UNCHANGED notPosixVars

\* The connection breaks (e.g. a reset): the socket emits 'error' and is
\* destroyed
SocketError ==
    /\ socketState = "open"
    /\ socketState' = "destroyed"
    /\ results' = FailPending(results)
    /\ UNCHANGED <<posixFormat, frames, inbound, buffer, state, length, completed, byteWise, sentBytes,
                   transitions>>
    /\ UNCHANGED notPosixVars

CloseNext == ReceiveMessage \/ SocketData \/ Close \/ PeerEnd \/ SocketError

\* The event loop runs every event that is due
CloseFairness == WF_vars(SocketData)

\* ---- receiveMessage called again on the same socket ----

MaxRepeatedCalls == 2

\* receiveMessage() any number of times up to the bound, before, between and
\* after the chunks
CallsNext == ReceiveMessageUpTo(MaxRepeatedCalls) \/ SocketData

\* ---- A socket of Xml format ----

MaxXmlDocs == 2

\* What the device sends: documents that parse (with Status Complete, with
\* another Status, without Status) and bytes that do not
XmlDocs == { <<60, StatusCompleteByte>>, <<60, StatusProgressByte>>, <<60>>, <<7>> }

RECURSIVE XmlBytes(_)
XmlBytes(docs) == IF docs = <<>> THEN <<>> ELSE Head(docs) \o XmlBytes(Tail(docs))

XmlInit ==
    /\ posixFormat = XmlFormat
    /\ frames \in SeqsUpTo(XmlDocs, MaxXmlDocs)
    /\ inbound = XmlBytes(frames)
    /\ buffer = <<>>
    /\ state = "Length"
    /\ length = 4
    /\ results = <<>>
    /\ completed = <<>>
    /\ byteWise = TRUE
    /\ socketState = "open"
    /\ sentBytes = <<>>
    /\ transitions = <<>>
\* ------------------------------------------------------------------------
\* MobileDevice.isDataReceivingCompleted (ios-core.ts 633-635)
\* ------------------------------------------------------------------------

\* The replies looked at: every field is absent (undefined) or holds one of a
\* few values of the type the device sends
StatusValues == {Undefined, Str(""), Str("Complete"), Str("CopyingApplication")}
CompleteValues == {Undefined, Bool(TRUE), Bool(FALSE)}
PercentCompleteValues == {Undefined, Num(0), Num(1), Num(50), Num(100)}

Replies == [Status : StatusValues, Complete : CompleteValues,
            PercentComplete : PercentCompleteValues]

\* return reply.Status && reply.Complete && !reply.PercentComplete;
IsDataReceivingCompleted(r) ==
    JsAnd(JsAnd(r.Status, r.Complete), JsNot(r.PercentComplete))

NotCalled == [called |-> FALSE, value |-> Undefined]

CompletionInit ==
    /\ reply \in Replies
    /\ verdict = NotCalled

CallIsDataReceivingCompleted ==
    /\ ~verdict.called
    /\ verdict' = [called |-> TRUE, value |-> IsDataReceivingCompleted(reply)]
    /\ UNCHANGED reply
    /\ UNCHANGED notCompletionVars

CompletionNext == CallIsDataReceivingCompleted

CompletionIdle ==
    /\ reply = [Status |-> Undefined, Complete |-> Undefined, PercentComplete |-> Undefined]
    /\ verdict = NotCalled

\* ---- Claim about the completion policy ----

\* C2: isDataReceivingCompleted(reply) is true if and only if the reply
\* contains a Status field, contains a Complete field equal to true, and does
\* not contain a PercentComplete field at all.
C2_CompletionPolicy ==
    verdict.called =>
        (Truthy(verdict.value) <=>
            /\ reply.Status # Undefined
            /\ reply.Complete = Bool(TRUE)
            /\ reply.PercentComplete = Undefined)

\* The call was made on a reply that carries PercentComplete 0
C2_Witness ==
    /\ verdict.called
    /\ reply.Status = Str("Complete") /\ reply.Complete = Bool(TRUE)
    /\ reply.PercentComplete = Num(0)

\* ------------------------------------------------------------------------
\* Remote-debug packets: getCharacterCodePoint, GDBServer (ios-core.ts
\* 998-1007, 1073-1123)
\* ------------------------------------------------------------------------

\* Bounds of the GDBServer specifications
MaxArgLen == 1
MaxArgs == 2
MaxRuns == 2
MaxPacketLen == 4

\* Character codes the protocol names
Dollar == 36
Hash == 35
Plus == 43
Comma == 44

\* The packets of the launch handshake, as code units
QStartNoAckMode == <<81, 83, 116, 97, 114, 116, 78, 111, 65, 99, 107, 77, 111, 100, 101>>   \* "QStartNoAckMode"
QEnvironmentHexEncoded == <<81, 69, 110, 118, 105, 114, 111, 110, 109, 101, 110, 116, 72, 101, 120, 69, 110, 99, 111, 100, 101, 100, 58>>   \* "QEnvironmentHexEncoded:"
QSetDisableASLR == <<81, 83, 101, 116, 68, 105, 115, 97, 98, 108, 101, 65, 83, 76, 82, 58, 49>>   \* "QSetDisableASLR:1"
QLaunchSuccess == <<113, 76, 97, 117, 110, 99, 104, 83, 117, 99, 99, 101, 115, 115>>   \* "qLaunchSuccess"
VCont == <<118, 67, 111, 110, 116, 59, 99>>   \* "vCont;c"
Detach == <<68>>   \* "D"

\* Number.prototype.toString(16) and util.format("%d"): digits without any
\* padding, lowercase
DigitChar(d) == IF d < 10 THEN 48 + d ELSE 87 + d

RECURSIVE NumberToString(_, _)
NumberToString(n, radix) ==
    IF n < radix THEN <<DigitChar(n)>>
    ELSE Append(NumberToString(n \div radix, radix), DigitChar(n % radix))

\* new Buffer(str): the UTF-8 bytes of a string of BMP code units (a lone
\* surrogate is written as U+FFFD)
Utf8Bytes(c) ==
    IF c < 128 THEN <<c>>
    ELSE IF c < 2048 THEN <<192 + (c \div 64), 128 + (c % 64)>>
    ELSE IF c >= 55296 /\ c <= 57343 THEN <<239, 191, 189>>
    ELSE <<224 + (c \div 4096), 128 + ((c \div 64) % 64), 128 + (c % 64)>>

RECURSIVE Utf8Encode(_)
Utf8Encode(str) == IF str = <<>> THEN <<>> ELSE Utf8Bytes(Head(str)) \o Utf8Encode(Tail(str))

\* buf.toString("hex"): two lowercase digits per byte
RECURSIVE HexString(_)
HexString(bytes) ==
    IF bytes = <<>> THEN <<>>
    ELSE <<DigitChar(Head(bytes) \div 16), DigitChar(Head(bytes) % 16)>> \o HexString(Tail(bytes))

\* getCharacterCodePoint(ch) (lines 998-1007): the assertion fails for code
\* units in 0xD800..0xFFFF
CodePointAccepted(code) == ~(55296 <= code /\ code <= 65535)

RECURSIVE SumOfCodes(_)
SumOfCodes(str) == IF str = <<>> THEN 0 ELSE Head(str) + SumOfCodes(Tail(str))

\* sum & 255 after the loop of lines 1114-1118
PacketSum(packet) == SumOfCodes(packet) % 256

\* util.format("$%s#%s", packet, sum.toString(16)) (line 1120)
PacketData(packet) ==
    <<Dollar>> \o packet \o <<Hash>> \o NumberToString(PacketSum(packet), 16)

\* GdbSend altered: the string is written before the characters are examined
GdbSendWritesFirst(packet) ==
    IF \A i \in 1..Len(packet) : CodePointAccepted(packet[i])
    THEN [threw |-> FALSE, writes |-> <<PacketData(packet)>>]
    ELSE [threw |-> TRUE, writes |-> <<PacketData(packet)>>]

\* GDBServer.send(packet) (lines 1113-1122): throws while summing when a
\* character is refused, else hands one string to socket.write
GdbSend(packet) ==
    IF \A i \in 1..Len(packet) : CodePointAccepted(packet[i])
    THEN [threw |-> FALSE, writes |-> <<PacketData(packet)>>]
    ELSE [threw |-> TRUE, writes |-> <<>>]

\* Line 1094: util.format("%d,%d,%s", arg.length * 2, index, hex of arg)
\* (index is 0-based)
EncodedArgument(arg, index) ==
    NumberToString(Len(arg) * 2, 10) \o <<Comma>> \o NumberToString(index, 10)
        \o <<Comma>> \o HexString(Utf8Encode(arg))

\* _.map(argv, ...).join(",")
RECURSIVE JoinArguments(_, _)
JoinArguments(args, n) ==
    IF n = 0 THEN <<>>
    ELSE IF n = 1 THEN EncodedArgument(args[1], 0)
    ELSE JoinArguments(args, n - 1) \o <<Comma>> \o EncodedArgument(args[n], n - 1)

EncodedArguments(args) == JoinArguments(args, Len(args))

\* The arguments looked at: strings over an ASCII letter and a letter that
\* takes two bytes in UTF-8
ArgChars == {97, 233}
ArgStrings == SeqsUpTo(ArgChars, MaxArgLen)

GdbInit ==
    /\ hostIsWindows \in BOOLEAN
    /\ justlaunch \in BOOLEAN
    /\ argv \in SeqsUpTo(ArgStrings, MaxArgs)
    /\ gdbPc = 0
    /\ runs = 0
    /\ written = <<>>
    /\ pipes = <<>>

GdbIdle ==
    /\ hostIsWindows = FALSE /\ justlaunch = FALSE /\ argv = <<>>
    /\ gdbPc = 0 /\ runs = 0 /\ written = <<>> /\ pipes = <<>>

\* One statement of run(): send(packet) on this.socket.  `written` is the
\* sequence of strings handed to this.socket.write (on Windows the wrapper of
\* lines 1080-1084 passes each string on to WinSocket.sendMessage).
RunSend(pc, packet) ==
    /\ gdbPc = pc
    /\ ~GdbSend(packet).threw
    /\ written' = written \o GdbSend(packet).writes
    /\ gdbPc' = pc + 1
    /\ UNCHANGED <<hostIsWindows, justlaunch, argv, runs, pipes>>
    /\ UNCHANGED notGdbVars

\* line 1089 (run may be called again once the previous call returned)
SendQStartNoAckMode == runs < MaxRuns /\ RunSend(0, QStartNoAckMode)

\* SendAck altered: the first packet is written again, as a retry would
SendAckRetrying ==
    /\ gdbPc = 1
    /\ written' = written \o <<PacketData(QStartNoAckMode), <<Plus>>>>
    /\ gdbPc' = 2
    /\ UNCHANGED <<hostIsWindows, justlaunch, argv, runs, pipes>>
    /\ UNCHANGED notGdbVars

\* line 1090: this.socket.write("+")
SendAck ==
    /\ gdbPc = 1
    /\ written' = Append(written, <<Plus>>)
    /\ gdbPc' = 2
    /\ UNCHANGED <<hostIsWindows, justlaunch, argv, runs, pipes>>
    /\ UNCHANGED notGdbVars

\* line 1091
SendQEnvironmentHexEncoded == RunSend(2, QEnvironmentHexEncoded)

\* line 1092
SendQSetDisableASLR == RunSend(3, QSetDisableASLR)

\* lines 1094-1095
SendArguments == RunSend(4, <<65>> \o EncodedArguments(argv))

\* line 1097
SendQLaunchSuccess == RunSend(5, QLaunchSuccess)

\* lines 1099-1110: the resume directive; run() returns after it
ResumeDirective == IF hostIsWindows THEN VCont ELSE IF ~justlaunch THEN VCont ELSE Detach

Resume ==
    /\ gdbPc = 6
    /\ written' = written \o GdbSend(ResumeDirective).writes
    /\ pipes' = IF ~hostIsWindows /\ ~justlaunch
                THEN pipes \o <<"GDBStandardOutputAdapter", "GDBSignalWatcher">>
                ELSE pipes
    /\ gdbPc' = 0
    /\ runs' = runs + 1
    /\ UNCHANGED <<hostIsWindows, justlaunch, argv>>
    /\ UNCHANGED notGdbVars

GdbNext ==
    \/ SendQStartNoAckMode
    \/ SendAck
    \/ SendQEnvironmentHexEncoded
    \/ SendQSetDisableASLR
    \/ SendArguments
    \/ SendQLaunchSuccess
    \/ Resume

\* ---- GDBServer.send on its own ----

\* The payloads looked at: two ASCII characters whose sums reach a multiple
\* of 256 within the bound, a lone surrogate and the last refused code unit
PacketChars == {64, 65, 55296, 65535}

SendInit ==
    /\ packetArg \in SeqsUpTo(PacketChars, MaxPacketLen)
    /\ sent = [called |-> FALSE, threw |-> FALSE, writes |-> <<>>]

SendIdle ==
    /\ packetArg = <<>>
    /\ sent = [called |-> FALSE, threw |-> FALSE, writes |-> <<>>]

CallSend ==
    /\ ~sent.called
    /\ sent' = [called |-> TRUE, threw |-> GdbSend(packetArg).threw,
                writes |-> GdbSend(packetArg).writes]
    /\ UNCHANGED packetArg
    /\ UNCHANGED notSendVars

SendNext == CallSend

\* ------------------------------------------------------------------------
\* Inbound debug stream: GDBStandardOutputAdapter and GDBSignalWatcher
\* (ios-core.ts 1009-1071), piped to the socket by run() (1103-1104)
\* ------------------------------------------------------------------------

\* Bound of the inbound-stream specification
MaxInboundPackets == 2

\* Character codes the two consumers compare with
LetterO == 79
LetterK == 75
LetterT == 84
LetterS == 83
Digit9 == 57

\* The payloads the debug server sends: the acknowledgement OK, console
\* output "h", the two halves of a two-byte code point (U+00E9) in separate
\* packets, and stop replies for signals 0x05, 0x09 and 0x90
InboundPayloads ==
    { <<79, 75>>,
      <<79, 54, 56>>,
      <<79, 99, 51>>,
      <<79, 97, 57>>,
      <<84, 48, 53>>,
      <<84, 48, 57>>,
      <<84, 57, 48>> }

\* A packet as the debug server frames it: two checksum digits
DevicePacket(payload) ==
    <<Dollar>> \o payload \o <<Hash>>
        \o <<DigitChar(PacketSum(payload) \div 16), DigitChar(PacketSum(payload) % 16)>>

RECURSIVE DevicePackets(_)
DevicePackets(ps) ==
    IF ps = <<>> THEN <<>> ELSE DevicePacket(Head(ps)) \o DevicePackets(Tail(ps))

\* packet[i] of a Buffer, 0-based; out of range is undefined (here -1)
ByteAt(chunk, i) == IF i >= 0 /\ i < Len(chunk) THEN chunk[i + 1] ELSE -1

\* Value of a hexadecimal digit, -1 for any other character
HexValue(c) ==
    IF c >= 48 /\ c <= 57 THEN c - 48
    ELSE IF c >= 97 /\ c <= 102 THEN c - 87
    ELSE IF c >= 65 /\ c <= 70 THEN c - 55
    ELSE -1

ValidHex(str) ==
    /\ Len(str) % 2 = 0
    /\ \A k \in 1..Len(str) : HexValue(str[k]) >= 0

\* new Buffer(hexString, "hex") for a valid hex string
RECURSIVE HexDecode(_)
HexDecode(str) ==
    IF Len(str) < 2 THEN <<>>
    ELSE <<HexValue(str[1]) * 16 + HexValue(str[2])>> \o HexDecode(SubSeq(str, 3, Len(str)))

\* string_decoder.StringDecoder("utf8").write(bytes): the text decoded so
\* far and the bytes of an incomplete character kept for the next write.
\* Sequences of one and two bytes are decoded; what is not the start or the
\* continuation of one is replaced by U+FFFD.
RECURSIVE Utf8Write(_, _, _)
Utf8Write(pending, bytes, text) ==
    IF bytes = <<>> THEN [text |-> text, pending |-> pending]
    ELSE LET b == Head(bytes)
         IN  IF pending # <<>>
             THEN IF b >= 128 /\ b <= 191
                  THEN Utf8Write(<<>>, Tail(bytes),
                                 Append(text, (pending[1] - 192) * 64 + (b - 128)))
                  ELSE Utf8Write(<<>>, bytes, Append(text, 65533))
             ELSE IF b < 128 THEN Utf8Write(<<>>, Tail(bytes), Append(text, b))
             ELSE IF b >= 194 /\ b <= 223 THEN Utf8Write(<<b>>, Tail(bytes), text)
             ELSE Utf8Write(<<>>, Tail(bytes), Append(text, 65533))

\* DecoderWrite altered: every packet is decoded on its own
DecoderWriteFresh(pending, bytes) == Utf8Write(<<>>, bytes, <<>>)

\* this.utf8StringDecoder.write(hex) (line 1040): the decoder is a field of
\* the adapter and keeps the incomplete character of the write before
DecoderWrite(pending, bytes) == Utf8Write(pending, bytes, <<>>)

\* Index of the first '#' at or after i; -1 when there is none, and the
\* while loop of lines 1024-1026 never ends
RECURSIVE FindHash(_, _)
FindHash(chunk, i) ==
    IF i >= Len(chunk) THEN -1
    ELSE IF ByteAt(chunk, i) = Hash THEN i
    ELSE FindHash(chunk, i + 1)

\* IsConsoleOutput altered: every packet that starts with 'O' is taken for console output
IsConsoleOutputAnyO(chunk, start) == ByteAt(chunk, start) = LetterO

\* line 1033: first payload byte 'O' and second payload byte not 'K'
IsConsoleOutput(chunk, start) ==
    ByteAt(chunk, start) = LetterO /\ ByteAt(chunk, start + 1) # LetterK

\* GDBStandardOutputAdapter._transform (lines 1016-1048): the for loop from
\* index i on, with the text gathered and the decoder state so far.
\* outcome "done" is done(null, result), "error" is done(e), "hung" is the
\* call that never returns.
RECURSIVE Transform(_, _, _, _)
Transform(chunk, i, pending, result) ==
    IF i >= Len(chunk) THEN [outcome |-> "done", text |-> result, pending |-> pending]
    ELSE IF ByteAt(chunk, i) # Dollar THEN Transform(chunk, i + 1, pending, result)
    ELSE LET start == i + 1
             end == FindHash(chunk, start)
             hexString == SubSeq(chunk, start + 2, end)
         IN  IF end < 0 THEN [outcome |-> "hung", text |-> <<>>, pending |-> pending]
             ELSE IF ~IsConsoleOutput(chunk, start)
                  THEN Transform(chunk, end + 3, pending, result)
             ELSE IF ~ValidHex(hexString)
                  THEN [outcome |-> "error", text |-> <<>>, pending |-> pending]
             ELSE LET w == DecoderWrite(pending, HexDecode(hexString))
                  IN  Transform(chunk, end + 3, w.pending, result \o w.text)

\* GDBSignalWatcher._write (lines 1056-1070): TRUE when process.exit(1) is
\* reached
WatcherExits(chunk) ==
    \E i \in 0..(Len(chunk) - 3) :
        /\ ByteAt(chunk, i) = Dollar
        /\ (ByteAt(chunk, i + 1) = LetterT \/ ByteAt(chunk, i + 1) = LetterS)
        /\ ByteAt(chunk, i + 2) = Digit9

NoOutput == [outcome |-> "none", text |-> <<>>]

StreamInit ==
    /\ inboundPackets \in SeqsUpTo(InboundPayloads, MaxInboundPackets)
    /\ debugInbound = DevicePackets(inboundPackets)
    /\ delivered = 0
    /\ lastChunk = <<>>
    /\ utf8Pending = <<>>
    /\ prevPending = <<>>
    /\ lastOutput = NoOutput
    /\ stdout = <<>>
    /\ process = "running"
    /\ adapterSeen = <<>>
    /\ watcherSeen = <<>>

StreamIdle ==
    /\ inboundPackets = <<>> /\ debugInbound = <<>> /\ delivered = 0
    /\ lastChunk = <<>> /\ utf8Pending = <<>> /\ prevPending = <<>>
    /\ lastOutput = NoOutput /\ stdout = <<>> /\ process = "running"
    /\ adapterSeen = <<>> /\ watcherSeen = <<>>

\* The socket emits the next n bytes as one chunk.  The two pipes of lines
\* 1103-1104 hand it to the output adapter first and to the signal watcher
\* second; a _transform that never returns keeps the watcher from running,
\* and done(e) makes the adapter emit 'error', which nobody listens to.
DebugData ==
    /\ process = "running"
    /\ \E n \in 1..Len(debugInbound) :
         LET chunk == SubSeq(debugInbound, 1, n)
             t == Transform(chunk, 0, utf8Pending, <<>>)
         IN  /\ debugInbound' = SubSeq(debugInbound, n + 1, Len(debugInbound))
             /\ delivered' = delivered + Len(lastChunk)
             /\ lastChunk' = chunk
             /\ prevPending' = utf8Pending
             /\ utf8Pending' = t.pending
             /\ lastOutput' = [outcome |-> t.outcome, text |-> t.text]
             /\ stdout' = stdout \o t.text
             /\ process' = IF t.outcome = "hung" THEN "hung"
                           ELSE IF t.outcome = "error" THEN "crashed"
                           ELSE IF WatcherExits(chunk) THEN "exit1"
                           ELSE "running"
             /\ adapterSeen' = adapterSeen \o chunk
             /\ watcherSeen' = IF t.outcome = "done" THEN watcherSeen \o chunk
                               ELSE watcherSeen
    /\ UNCHANGED inboundPackets
    /\ UNCHANGED notStreamVars

StreamNext == DebugData

\* ------------------------------------------------------------------------
\* WinSocket: synchronous receive (ios-core.ts 658-671, 682-693, 741-761)
\* ------------------------------------------------------------------------

\* Bound of the WinSocket receive specification: the largest declared length
MaxDeclared == 2

\* The bytes on the wire and in uninitialised memory.  All are ASCII, for
\* which the conversion of `reply += r` (Buffer to string) keeps each byte as
\* one code unit.  60 is '<', with which an XML property list starts.
WinBytes == {0, 1, 2, 60, 97}
WinPayloadBytes == {60, 97}

\* Every beginning of every sequence of S
Prefixes(S) == UNION {{SubSeq(s, 1, n) : n \in 0..Len(s)} : s \in S}

\* What the device may send before it closes the connection: a message with
\* a declared length up to the bound, or any beginning of one
PeerStreams ==
    Prefixes(UNION {{Pack32BE(l) \o p : p \in [1..l -> WinPayloadBytes]} : l \in 0..MaxDeclared})

\* WinSocket.receiveMessage after receiveMessageCore returned `message`
\* (lines 684-691): the parsed reply for Xml, null for any other format
ReceiveMessageReturn(format, message) ==
    IF format = XmlFormat THEN XmlParse(message)
    ELSE [kind |-> "null", text |-> <<>>]

NoReturn == [kind |-> "none", text |-> <<>>]
Threw == [kind |-> "threw", text |-> <<>>]

\* WinSocket.read(bytes) when recv delivered k > 0 bytes: the whole Buffer of
\* the requested size is returned (line 670); the bytes recv did not write
\* are uninitialised memory, here `garbage`
ReadBuffer(received, garbage) == received \o garbage

\* reply += r (line 753): everything in the buffer is appended
AppendReply(rep, r) == rep \o r

RecvInit ==
    /\ winFormat \in {XmlFormat, BinaryFormat}
    /\ peerAll \in PeerStreams
    /\ peerBytes = peerAll
    /\ recvPc = "start"
    /\ lengthData = <<>>
    /\ declared = 0
    /\ left = 0
    /\ winReply = <<>>
    /\ returned = NoReturn
    /\ zeroRead = FALSE
    /\ shortRead = FALSE

RecvIdle ==
    /\ winFormat = XmlFormat /\ peerAll = <<>> /\ peerBytes = <<>>
    /\ recvPc = "start" /\ lengthData = <<>> /\ declared = 0 /\ left = 0
    /\ winReply = <<>> /\ returned = NoReturn /\ zeroRead = FALSE /\ shortRead = FALSE

\* recv reports an error (result < 0): $errors.fail throws (lines 664-665)
RecvFails ==
    /\ recvPc \in {"start", "payload"}
    /\ recvPc' = "failed"
    /\ returned' = Threw
    /\ UNCHANGED <<winFormat, peerAll, peerBytes, lengthData, declared, left, winReply,
                   zeroRead, shortRead>>
    /\ UNCHANGED notRecvVars

\* receiveMessage starts: read(4) finds the connection closed (recv returns
\* 0, read returns null).  Line 745 skips the body, receiveMessageCore
\* returns "" and receiveMessage goes on with it.
ReadLengthClosed ==
    /\ recvPc = "start"
    /\ peerBytes = <<>>
    /\ zeroRead' = TRUE
    /\ returned' = ReceiveMessageReturn(winFormat, <<>>)
    /\ recvPc' = IF ReceiveMessageReturn(winFormat, <<>>).kind = "threw" THEN "failed" ELSE "done"
    /\ UNCHANGED <<winFormat, peerAll, peerBytes, lengthData, declared, left, winReply, shortRead>>
    /\ UNCHANGED notRecvVars

\* receiveMessage starts: read(4) gets k of the 4 bytes asked for; lines
\* 746-747 unpack the whole 4-byte buffer.  A length of 0 or less skips the
\* loop and receiveMessage returns at once.
ReadLength ==
    /\ recvPc = "start"
    /\ \E k \in 1..4 : \E garbage \in [1..(4 - k) -> WinBytes] :
         LET data == ReadBuffer(SubSeq(peerBytes, 1, k), garbage)
             l == ReadInt32BE(data)
         IN  /\ k <= Len(peerBytes)
             /\ l <= MaxDeclared
             /\ peerBytes' = SubSeq(peerBytes, k + 1, Len(peerBytes))
             /\ lengthData' = data
             /\ declared' = l
             /\ left' = l
             /\ shortRead' = (k < 4)
             /\ IF l > 0
                THEN /\ recvPc' = "payload"
                     /\ returned' = returned
                ELSE /\ returned' = ReceiveMessageReturn(winFormat, <<>>)
                     /\ recvPc' = IF ReceiveMessageReturn(winFormat, <<>>).kind = "threw"
                                  THEN "failed" ELSE "done"
    /\ UNCHANGED <<winFormat, peerAll, winReply, zeroRead>>
    /\ UNCHANGED notRecvVars

\* In the loop: read(left) finds the connection closed and line 751 fails
ReadPayloadClosed ==
    /\ recvPc = "payload"
    /\ peerBytes = <<>>
    /\ zeroRead' = TRUE
    /\ recvPc' = "failed"
    /\ returned' = Threw
    /\ UNCHANGED <<winFormat, peerAll, peerBytes, lengthData, declared, left, winReply, shortRead>>
    /\ UNCHANGED notRecvVars

\* In the loop: read(left) gets k of the bytes asked for (lines 749-754);
\* r.length is the size asked for.  When nothing is left the loop ends and
\* receiveMessage returns.
ReadPayload ==
    /\ recvPc = "payload"
    /\ \E k \in 1..left : \E garbage \in [1..(left - k) -> WinBytes] :
         LET r == ReadBuffer(SubSeq(peerBytes, 1, k), garbage)
             rep == AppendReply(winReply, r)
             rest == left - Len(r)
         IN  /\ k <= Len(peerBytes)
             /\ peerBytes' = SubSeq(peerBytes, k + 1, Len(peerBytes))
             /\ winReply' = rep
             /\ left' = rest
             /\ shortRead' = (shortRead \/ k < left)
             /\ IF rest > 0
                THEN /\ recvPc' = "payload"
                     /\ returned' = returned
                ELSE /\ returned' = ReceiveMessageReturn(winFormat, rep)
                     /\ recvPc' = IF ReceiveMessageReturn(winFormat, rep).kind = "threw"
                                  THEN "failed" ELSE "done"
    /\ UNCHANGED <<winFormat, peerAll, lengthData, declared, zeroRead>>
    /\ UNCHANGED notRecvVars

RecvNext ==
    \/ RecvFails
    \/ ReadLengthClosed
    \/ ReadLength
    \/ ReadPayloadClosed
    \/ ReadPayload

\* ------------------------------------------------------------------------
\* sendMessage of WinSocket (ios-core.ts 695-710, 763-767) and of PosixSocket
\* (921-936), chosen by PlistService (960-964)
\* ------------------------------------------------------------------------

\* Bounds of the send specification
MaxEncodedLen == 3
MaxSends == 1

\* The messages passed to sendMessage: a string, sent as it is, or a
\* dictionary.  The encoders (plistlib.toString, CoreFoundation's
\* propertyListCreateData) are external; a dictionary is represented by the
\* bytes its encoding yields.
Messages == [isString : BOOLEAN, bytes : SeqsUpTo(WinPayloadBytes, MaxEncodedLen)]

\* WinSocket.sendMessage, lines 696-705: the buffer handed to sendCore
WinMessageBuffer(msg) ==
    IF msg.isString THEN msg.bytes
    ELSE Pack32BE(Len(msg.bytes)) \o msg.bytes

\* PosixSocket.sendMessage, lines 922-933: the buffers handed to
\* socket.write, in order
PosixWrites(msg) ==
    IF msg.isString THEN <<msg.bytes>>
    ELSE <<Pack32BE(Len(msg.bytes)), msg.bytes>>

NoMessageSent == [isString |-> TRUE, bytes |-> <<>>]

PlistSendInit ==
    /\ hostInfo \in {"windows", "darwin"}
    /\ wire = <<>>
    /\ wireBefore = <<>>
    /\ lastMessage = NoMessageSent
    /\ sends = 0
    /\ writtenBytes = 0
    /\ sendOutcome = "none"

PlistSendIdle ==
    /\ hostInfo = "darwin" /\ wire = <<>> /\ wireBefore = <<>>
    /\ lastMessage = NoMessageSent /\ sends = 0 /\ writtenBytes = 0
    /\ sendOutcome = "none"

\* WinSocket.sendMessage(data): sendCore is called once; winsock's send
\* accepts n of the bytes offered, or reports an error (-1) and accepts
\* nothing.  sendCore returns the result whatever it is (lines 763-767);
\* sendMessage logs it and returns.
WinSendMessage ==
    /\ hostInfo = "windows"
    /\ sends < MaxSends
    /\ \E msg \in Messages :
         \E n \in -1..Len(WinMessageBuffer(msg)) :
            /\ lastMessage' = msg
            /\ writtenBytes' = n
            /\ wire' = wire \o BufferSlice(WinMessageBuffer(msg), 0, IF n < 0 THEN 0 ELSE n)
    /\ wireBefore' = wire
    /\ sends' = sends + 1
    /\ sendOutcome' = "returned"
    /\ UNCHANGED hostInfo
    /\ UNCHANGED notPlistSendVars

\* PosixSocket.sendMessage(message, format): net.Socket.write queues every
\* buffer it is given, in order
PosixSendMessage ==
    /\ hostInfo = "darwin"
    /\ sends < MaxSends
    /\ \E msg \in Messages :
         /\ lastMessage' = msg
         /\ wire' = wire \o Flatten(PosixWrites(msg))
         /\ writtenBytes' = Len(Flatten(PosixWrites(msg)))
    /\ wireBefore' = wire
    /\ sends' = sends + 1
    /\ sendOutcome' = "returned"
    /\ UNCHANGED hostInfo
    /\ UNCHANGED notPlistSendVars

PlistSendNext == WinSendMessage \/ PosixSendMessage

\* ------------------------------------------------------------------------
\* WinSocket.sendAll (ios-core.ts 712-720)
\* ------------------------------------------------------------------------

\* Bound of the sendAll specification: the length of the buffer
MaxSendAllLen == 3

SendAllBuffers == SeqsUpTo({1, 2}, MaxSendAllLen)

SendAllInit ==
    /\ sendAllPc = "idle"
    /\ sendAllData = <<>>
    /\ offered = <<>>
    /\ accepted = <<>>
    /\ lastResult = 0
    /\ sendTick = FALSE

SendAllIdle == SendAllInit

\* sendAll(data) is called: the loop ends at once for an empty buffer
SendAll ==
    /\ sendAllPc = "idle"
    /\ \E data \in SendAllBuffers :
         /\ sendAllData' = data
         /\ offered' = data
         /\ sendAllPc' = IF Len(data) # 0 THEN "loop" ELSE "returned"
    /\ UNCHANGED <<accepted, lastResult, sendTick>>
    /\ UNCHANGED notSendAllVars

\* One pass of the while loop (lines 713-719): send() is offered all of
\* `data` and reports how many bytes it took, 0 included, or an error (-1);
\* $errors.fail throws; otherwise data = data.slice(result)
SendAllStep ==
    /\ sendAllPc = "loop"
    /\ \E result \in -1..Len(sendAllData) :
         /\ lastResult' = result
         /\ IF result < 0
            THEN /\ sendAllPc' = "failed"
                 /\ UNCHANGED <<sendAllData, accepted>>
            ELSE /\ sendAllData' = BufferSliceFrom(sendAllData, result)
                 /\ accepted' = accepted \o BufferSlice(sendAllData, 0, result)
                 /\ sendAllPc' = IF Len(BufferSliceFrom(sendAllData, result)) # 0
                                 THEN "loop" ELSE "returned"
    /\ sendTick' = ~sendTick
    /\ UNCHANGED offered
    /\ UNCHANGED notSendAllVars

SendAllNext == SendAll \/ SendAllStep

\* The loop runs on as long as its condition holds
SendAllFairness == WF_vars(SendAllStep)
\* ------------------------------------------------------------------------
\* Property-list codec: CoreFoundation.cfTypeFrom, cfTypeTo,
\* convertCFStringToCString, dictToPlistEncoding, dictFromPlistEncoding
\* (ios-core.ts 385-492) and WinSocket.createPlist (769-797)
\* ------------------------------------------------------------------------

\* Bound of the codec specification: the most entries a dictionary holds
MaxEntries == 1

\* JavaScript values handed to the codec.  text holds the code units of a
\* string, the bytes of a Buffer or the one number of a number or boolean;
\* entries holds the key/value pairs of an object in insertion order.
JsString(t) == [tag |-> "string", text |-> t, entries |-> <<>>]
JsBuffer(b) == [tag |-> "buffer", text |-> b, entries |-> <<>>]
JsNumber(n) == [tag |-> "number", text |-> <<n>>, entries |-> <<>>]
JsBoolean(b) == [tag |-> "boolean", text |-> <<IF b THEN 1 ELSE 0>>, entries |-> <<>>]
JsObject(es) == [tag |-> "object", text |-> <<>>, entries |-> es]
JsUndefined == [tag |-> "undefined", text |-> <<>>, entries |-> <<>>]
JsNull == [tag |-> "null", text |-> <<>>, entries |-> <<>>]

\* Values of the CoreFoundation library
CfString(t) == [tag |-> "CFString", text |-> t, entries |-> <<>>]
CfData(b) == [tag |-> "CFData", text |-> b, entries |-> <<>>]
CfDictionary(es) == [tag |-> "CFDictionary", text |-> <<>>, entries |-> es]

\* The i-th key: "k", "l", ...
Key(i) == <<106 + i>>

\* The entry lists with keys i, i+1, ... (each at most once) and values of V
RECURSIVE DictsFrom(_, _)
DictsFrom(i, V) ==
    IF i > MaxEntries THEN {<<>>}
    ELSE LET rest == DictsFrom(i + 1, V)
         IN  rest \cup {<<[key |-> Key(i), value |-> v]>> \o r : v \in V, r \in rest}

\* Text (empty, ASCII, and U+00E9, which takes two bytes in UTF-8), Bytes,
\* and values outside the supported variants
TextValues == {JsString(<<>>), JsString(<<97>>), JsString(<<233>>)}
BytesValues == {JsBuffer(<<>>), JsBuffer(<<255>>)}
OtherValues == {JsNumber(5), JsBoolean(TRUE)}
InnerDictionaries == {JsObject(es) : es \in DictsFrom(1, TextValues \cup BytesValues)}
CodecInputs ==
    {JsObject(es) :
        es \in DictsFrom(1, TextValues \cup BytesValues \cup OtherValues \cup InnerDictionaries)}

\* ---- encode ----

\* _.keys(value) / _.values(value) (lines 408-409): the entries of an
\* object; for a value that is not an object the library yields no keys
\* or, in releases that refuse such a value, throws
RECURSIVE CfEntriesFrom(_, _)
RECURSIVE CfTypeFrom(_, _)

\* The loop of lines 417-432 over the entries
CfEntriesFrom(es, refuses) ==
    IF es = <<>> THEN [threw |-> FALSE, entries |-> <<>>]
    ELSE LET e == Head(es)
             cfValue ==
                IF e.value.tag = "string" THEN [threw |-> FALSE, cf |-> CfString(e.value.text)]
                ELSE IF e.value.tag = "buffer" THEN [threw |-> FALSE, cf |-> CfData(e.value.text)]
                ELSE CfTypeFrom(e.value, refuses)
             rest == CfEntriesFrom(Tail(es), refuses)
         IN  IF cfValue.threw \/ rest.threw THEN [threw |-> TRUE, entries |-> <<>>]
             ELSE [threw |-> FALSE,
                   entries |-> <<[key |-> e.key, value |-> cfValue.cf]>> \o rest.entries]

\* CoreFoundation.cfTypeFrom(value) (lines 407-435)
CfTypeFrom(value, refuses) ==
    IF value.tag # "object" /\ refuses THEN [threw |-> TRUE, cf |-> CfDictionary(<<>>)]
    ELSE LET converted == CfEntriesFrom(IF value.tag = "object" THEN value.entries ELSE <<>>,
                                        refuses)
         IN  [threw |-> converted.threw, cf |-> CfDictionary(converted.entries)]

\* CFPropertyListCreateData / CFPropertyListCreateWithData are external.
\* The serialisation is scaled down to a header byte that tells the format,
\* then per value a tag, a count and the content (UTF-8 for a string; key
\* and value in turn for every entry of a dictionary).
PlistHeader(format) == IF format = XmlFormat THEN 60 ELSE BplistHeader
StringTag == 1
DataTag == 2
DictionaryTag == 3

RECURSIVE PlistValueBytes(_)
RECURSIVE PlistEntriesBytes(_)
PlistValueBytes(cf) ==
    IF cf.tag = "CFString"
    THEN <<StringTag, Len(Utf8Encode(cf.text))>> \o Utf8Encode(cf.text)
    ELSE IF cf.tag = "CFData" THEN <<DataTag, Len(cf.text)>> \o cf.text
    ELSE <<DictionaryTag, Len(cf.entries)>> \o PlistEntriesBytes(cf.entries)

PlistEntriesBytes(es) ==
    IF es = <<>> THEN <<>>
    ELSE PlistValueBytes(CfString(Head(es).key)) \o PlistValueBytes(Head(es).value)
            \o PlistEntriesBytes(Tail(es))

PropertyListCreateData(cf, format) == <<PlistHeader(format)>> \o PlistValueBytes(cf)

\* dictToPlistEncoding(dict, format) (lines 472-478): the bytes of the
\* CFData, or the exception of cfTypeFrom
DictToPlistEncoding(dict, format, refuses) ==
    LET cfDict == CfTypeFrom(dict, refuses)
    IN  IF cfDict.threw THEN [threw |-> TRUE, bytes |-> <<>>]
        ELSE [threw |-> FALSE, bytes |-> PropertyListCreateData(cfDict.cf, format)]

\* ---- decode ----

ParseFailed == [ok |-> FALSE, cf |-> CfDictionary(<<>>), next |-> 0]

RECURSIVE ParseValue(_, _)
RECURSIVE ParseEntries(_, _, _, _)
\* The value that starts at the 0-based offset p
ParseValue(bytes, p) ==
    IF p + 2 > Len(bytes) THEN ParseFailed
    ELSE LET tag == bytes[p + 1]
             n == bytes[p + 2]
             content == BufferSlice(bytes, p + 2, p + 2 + n)
         IN  IF tag = DictionaryTag THEN ParseEntries(bytes, p + 2, n, <<>>)
             ELSE IF tag \notin {StringTag, DataTag} \/ p + 2 + n > Len(bytes) THEN ParseFailed
             ELSE [ok |-> TRUE,
                   cf |-> IF tag = StringTag THEN CfString(Utf8Write(<<>>, content, <<>>).text)
                          ELSE CfData(content),
                   next |-> p + 2 + n]

ParseEntries(bytes, p, n, acc) ==
    IF n = 0 THEN [ok |-> TRUE, cf |-> CfDictionary(acc), next |-> p]
    ELSE LET k == ParseValue(bytes, p)
         IN  IF ~k.ok \/ k.cf.tag # "CFString" THEN ParseFailed
             ELSE LET v == ParseValue(bytes, k.next)
                  IN  IF ~v.ok THEN ParseFailed
                      ELSE ParseEntries(bytes, v.next, n - 1,
                                        Append(acc, [key |-> k.cf.text, value |-> v.cf]))

\* CFPropertyListCreateWithData: the format is told from the header; NULL
\* (ok = FALSE) for data that is not a property list
PropertyListCreateWithData(bytes) ==
    IF Len(bytes) >= 1 /\ bytes[1] \in {PlistHeader(XmlFormat), PlistHeader(BinaryFormat)}
    THEN LET parsed == ParseValue(bytes, 1)
         IN  IF parsed.ok /\ parsed.next = Len(bytes) THEN parsed ELSE ParseFailed
    ELSE ParseFailed

\* convertCFStringToCString(cfstr) (lines 385-404).  CFStringGetCStringPtr
\* may return NULL for any string.  Then the buffer passed to
\* CFStringGetCString has CFStringGetLength(cfstr) + 1 bytes, the number of
\* UTF-16 code units plus one; the call fails when the UTF-8 bytes and the
\* terminator do not fit, and result is left undefined.
ConvertCFStringToCString(text, ptrNull) ==
    IF ~ptrNull THEN JsString(Utf8Write(<<>>, Utf8Encode(text), <<>>).text)
    ELSE LET cfstrLength == Len(text)
             bufferSize == cfstrLength + 1
             status == Len(Utf8Encode(text)) + 1 <= bufferSize
         IN  IF status
             THEN JsString(Utf8Write(<<>>, BufferSlice(Utf8Encode(text), 0, cfstrLength), <<>>).text)
             ELSE JsUndefined

\* String(jsKey) as a property name
PropertyName(js) ==
    IF js.tag = "undefined" THEN <<117, 110, 100, 101, 102, 105, 110, 101, 100>>
    ELSE js.text

\* jsDictionary[jsKey] = jsValue (line 460)
SetProperty(es, key, value) ==
    IF \E i \in 1..Len(es) : es[i].key = key
    THEN [i \in 1..Len(es) |-> IF es[i].key = key THEN [key |-> key, value |-> value] ELSE es[i]]
    ELSE Append(es, [key |-> key, value |-> value])

RECURSIVE CfTypeTo(_, _)
RECURSIVE CfEntriesTo(_, _, _)
\* The loop of lines 453-461
CfEntriesTo(es, ptrNull, acc) ==
    IF es = <<>> THEN acc
    ELSE CfEntriesTo(Tail(es), ptrNull,
                     SetProperty(acc, PropertyName(ConvertCFStringToCString(Head(es).key, ptrNull)),
                                 CfTypeTo(Head(es).value, ptrNull)))

\* CoreFoundation.cfTypeTo(dataRef) (lines 437-470)
CfTypeTo(cf, ptrNull) ==
    IF cf.tag = "CFString" THEN ConvertCFStringToCString(cf.text, ptrNull)
    ELSE IF cf.tag = "CFData" THEN JsBuffer(cf.text)
    ELSE IF cf.tag = "CFDictionary" THEN JsObject(CfEntriesTo(cf.entries, ptrNull, <<>>))
    ELSE JsString(<<>>)

\* dictFromPlistEncoding(str) (lines 480-492)
DictFromPlistEncoding(bytes, ptrNull) ==
    LET cfDict == PropertyListCreateWithData(bytes)
    IN  IF cfDict.ok THEN CfTypeTo(cfDict.cf, ptrNull) ELSE JsNull

\* ---- WinSocket.createPlist ----

\* createPlist(data) (lines 769-797): the node handed to plistlib.toString.
\* Every entry gets a type and a value; nothing is refused.
RECURSIVE CreatePlistEntries(_)
CreatePlistEntries(es) ==
    IF es = <<>> THEN <<>>
    ELSE LET v == Head(es).value
             type == IF v.tag = "buffer" THEN "data"
                     ELSE IF v.tag = "object" THEN "dict"
                     ELSE IF v.tag = "number" THEN "integer"
                     ELSE "string"
             value == IF v.tag = "object" THEN JsObject(<<>>) ELSE v
         IN  <<[key |-> Head(es).key, type |-> type, value |-> value]>>
                \o CreatePlistEntries(Tail(es))

CreatePlist(data) == [threw |-> FALSE, type |-> "dict", value |-> CreatePlistEntries(data.entries)]

NoPlist == [threw |-> FALSE, type |-> "none", value |-> <<>>]
NoEncoding == [threw |-> FALSE, bytes |-> <<>>]

\* ---- the codec as called by the channels ----

CodecInit ==
    /\ codecValue \in CodecInputs
    /\ codecFormat \in {XmlFormat, BinaryFormat}
    /\ cstringPtrNull \in BOOLEAN
    /\ keysThrows \in BOOLEAN
    /\ codecPc = "start"
    /\ encoding = NoEncoding
    /\ decoded = JsUndefined
    /\ winPlist = NoPlist

CodecIdle ==
    /\ codecValue = JsObject(<<>>) /\ codecFormat = XmlFormat /\ cstringPtrNull = FALSE
    /\ keysThrows = FALSE /\ codecPc = "start" /\ encoding = NoEncoding
    /\ decoded = JsUndefined /\ winPlist = NoPlist

\* PosixSocket.sendMessage encodes the dictionary (line 925)
Encode ==
    /\ codecPc = "start"
    /\ encoding' = DictToPlistEncoding(codecValue, codecFormat, keysThrows)
    /\ codecPc' = IF DictToPlistEncoding(codecValue, codecFormat, keysThrows).threw
                  THEN "failed" ELSE "encoded"
    /\ UNCHANGED <<codecValue, codecFormat, cstringPtrNull, keysThrows, decoded, winPlist>>
    /\ UNCHANGED notCodecVars

\* The bytes are decoded again
Decode ==
    /\ codecPc = "encoded"
    /\ decoded' = DictFromPlistEncoding(encoding.bytes, cstringPtrNull)
    /\ codecPc' = "decoded"
    /\ UNCHANGED <<codecValue, codecFormat, cstringPtrNull, keysThrows, encoding, winPlist>>
    /\ UNCHANGED notCodecVars

\* WinSocket.sendMessage builds the plist node of the dictionary (line 703)
WinCreatePlist ==
    /\ winPlist = NoPlist
    /\ winPlist' = CreatePlist(codecValue)
    /\ UNCHANGED <<codecValue, codecFormat, cstringPtrNull, keysThrows, codecPc, encoding,
                   decoded>>
    /\ UNCHANGED notCodecVars

CodecNext == Encode \/ Decode \/ WinCreatePlist
\* ------------------------------------------------------------------------
\* Signal and SignalBinding (src/events/signal.ts)
\* ------------------------------------------------------------------------

\* Bound of the Signal specification: the number of distinct listeners
MaxListeners == 2

Listeners == 1..MaxListeners
Priorities == {0, 1}

\* The arguments of a dispatch: dispatch() and dispatch(1).  _prevParams is
\* null or the array of arguments; an empty array is not null.
NullParams == [isNull |-> TRUE, args |-> <<>>]
ParamsArr(args) == [isNull |-> FALSE, args |-> args]
DispatchArgs == {<<>>, <<1>>}

\* What a listener does when it is called: nothing of note, halt() on the
\* signal, or return false
ListenerActs == {"plain", "halt", "false"}

\* What the n listeners of one dispatch do: the listeners behind the first
\* one that halts or returns false are not called, so at most one does
ActsOf(n) ==
    {[i \in 1..n |-> IF i = stop THEN act ELSE "plain"] :
        stop \in 0..n, act \in ListenerActs \ {"plain"}}

\* IndexOfListener altered: no binding is ever found
IndexOfListenerBlind(bs, l) ==
    0

\* Signal._indexOfListener (lines 292-309), 1-based; 0 for -1
IndexOfListener(bs, l) ==
    IF \E i \in 1..Len(bs) : bs[i].listener = l
    THEN CHOOSE i \in 1..Len(bs) : bs[i].listener = l /\ \A j \in (i + 1)..Len(bs) : bs[j].listener # l
    ELSE 0

\* Signal.has (lines 317-321)
Has(bs, l) == IndexOfListener(bs, l) # 0

\* The do/while of _addBinding (line 280): n is the 0-based index it stops at
RECURSIVE InsertAfter(_, _, _)
InsertAfter(bs, binding, n) ==
    IF n >= 0 /\ binding.priority <= bs[n + 1].priority
    THEN InsertAfter(bs, binding, n - 1)
    ELSE n

\* AddBinding altered: a new binding goes behind
\* the bindings of its own priority
AddBindingBehindEquals(bs, binding) ==
    LET k == Cardinality({i \in 1..Len(bs) : bs[i].priority <= binding.priority})
    IN  SubSeq(bs, 1, k) \o <<binding>> \o SubSeq(bs, k + 1, Len(bs))

\* Signal._addBinding (lines 274-284): insertion in ascending priority, in
\* front of the bindings of the same priority
AddBinding(bs, binding) ==
    LET n == InsertAfter(bs, binding, Len(bs) - 1)
    IN  SubSeq(bs, 1, n + 1) \o <<binding>> \o SubSeq(bs, n + 2, Len(bs))

\* this._bindings.splice(i, 1) for the binding of listener l, if any
WithoutListener(bs, l) ==
    LET i == IndexOfListener(bs, l)
    IN  IF i = 0 THEN bs ELSE SubSeq(bs, 1, i - 1) \o SubSeq(bs, i + 1, Len(bs))

\* The binding of listener l has run once more (ghost count, kept for
\* bindings made by addOnce)
Ran(bs, l) ==
    [i \in 1..Len(bs) |-> IF bs[i].listener = l /\ bs[i].isOnce
                          THEN [bs[i] EXCEPT !.ran = 1] ELSE bs[i]]

\* BindingDetach altered: the binding stays in the list
BindingDetachKeeps(bs, l) ==
    bs

\* SignalBinding.detach (lines 107-111): signal.remove(listener, context)
BindingDetach(bs, l) ==
    WithoutListener(bs, l)

\* SignalBinding.execute (lines 81-100) seen from the list of bindings: the
\* listener is applied, and a binding made by addOnce is detached
Execute(bs, b) ==
    IF b.isOnce THEN BindingDetach(Ran(bs, b.listener), b.listener) ELSE bs

\* StartPropagate altered: the flag is left as halt() set it
StartPropagateKept(before) ==
    before

\* dispatch, line 438: this._shouldPropagate = true
StartPropagate(before) ==
    TRUE

\* ReplaysMemorized altered: memorize is not looked at
ReplaysWhateverMemorize(mem, prev) ==
    ~prev.isNull

\* _registerListener, line 260: this.memorize && this._prevParams
ReplaysMemorized(mem, prev) ==
    mem /\ ~prev.isNull

\* Executable altered: a binding is executed although it was destroyed
ExecutableAlways(b, destroyed) ==
    TRUE

\* SignalBinding.execute, line 86: this.active && !!this._listener.  remove()
\* destroys the binding it takes out of the list (lines 367, 153-159), which
\* deletes its _listener; the clone of a running dispatch still holds it.
Executable(b, destroyed) ==
    b.listener \notin destroyed

\* What the listener itself did to the list of bindings: nothing, or
\* remove(target), or add(target, null, priority) of a listener that is not
\* bound
ListenerEffect(live, act, target, priority) ==
    IF act = "remove" THEN WithoutListener(live, target)
    ELSE IF act = "add"
    THEN AddBinding(live, [listener |-> target, isOnce |-> FALSE, priority |-> priority,
                           ran |-> 0])
    ELSE live

\* The loop of dispatch (line 442) over the cloned list bs, from index n
\* down: binding n is executed unless propagation was stopped, and the loop
\* ends after a listener that returned false.  run holds the live list, the
\* executions so far and the bindings destroyed meanwhile; an add() made by
\* a listener replays the memorized parameters to the new listener at once
\* (line 260).
RECURSIVE RunBindings(_, _, _, _)
RunBindings(bs, n, acts, run) ==
    IF n = 0 \/ ~run.propagate THEN run
    ELSE IF ~Executable(bs[n], run.destroyed) THEN RunBindings(bs, n - 1, acts, run)
    ELSE LET b == bs[n]
             replayed == IF acts[n] = "add" /\ ReplaysMemorized(memorize, run.prev)
                         THEN <<[listener |-> run.target, act |-> "plain",
                                 isOnce |-> FALSE, priority |-> run.priority]>>
                         ELSE <<>>
             next == [run EXCEPT
                        !.live = Execute(ListenerEffect(run.live, acts[n], run.target,
                                                        run.priority), b),
                        !.executed = Append(run.executed,
                                            [listener |-> b.listener, act |-> acts[n],
                                             isOnce |-> b.isOnce, priority |-> b.priority])
                                        \o replayed,
                        !.propagate = run.propagate /\ acts[n] # "halt",
                        !.destroyed = run.destroyed
                                        \cup (IF acts[n] = "remove" THEN {run.target} ELSE {})
                                        \cup (IF b.isOnce THEN {b.listener} ELSE {})]
         IN  IF acts[n] = "false" THEN next ELSE RunBindings(bs, n - 1, acts, next)

NoCall == [op |-> "none", threw |-> FALSE, listener |-> 0, executed |-> <<>>,
           args |-> NullParams]

SignalInit ==
    /\ sigBindings = <<>>
    /\ prevParams = NullParams
    /\ memorize = FALSE
    /\ shouldPropagate = TRUE
    /\ sigActive = TRUE
    /\ disposed = FALSE
    /\ addOrder = <<>>
    /\ lastDispatch = NullParams
    /\ memorized = NullParams
    /\ lastCall = NoCall

SignalIdle ==
    /\ sigBindings = <<>> /\ prevParams = NullParams /\ memorize = FALSE
    /\ shouldPropagate = TRUE /\ sigActive = TRUE /\ disposed = FALSE
    /\ addOrder = <<>> /\ lastDispatch = NullParams
    /\ memorized = NullParams /\ lastCall = NoCall

\* The listeners of order that bs still binds (ghost)
Bound(order, bs) ==
    SelectSeq(order, LAMBDA x : Has(bs, x))

\* The ghost record of a call
Call(op, l, threw, executed, args) ==
    [op |-> op, threw |-> threw, listener |-> l, executed |-> executed, args |-> args]

\* add / addOnce (lines 330-351) through _registerListener (lines 239-267)
RegisterListener(l, isOnce, priority, act) ==
    LET prevIndex == IndexOfListener(sigBindings, l)
        op == IF isOnce THEN "addOnce" ELSE "add"
        binding == IF prevIndex # 0 THEN sigBindings[prevIndex]
                   ELSE [listener |-> l, isOnce |-> isOnce, priority |-> priority, ran |-> 0]
        added == IF prevIndex # 0 THEN sigBindings ELSE AddBinding(sigBindings, binding)
        order == IF prevIndex # 0 THEN addOrder ELSE Append(addOrder, l)
        executes == ReplaysMemorized(memorize, prevParams)
    IN  IF prevIndex # 0 /\ sigBindings[prevIndex].isOnce # isOnce
        THEN /\ lastCall' = Call(op, l, TRUE, <<>>, NullParams)
             /\ UNCHANGED <<sigBindings, addOrder, shouldPropagate>>
        ELSE /\ sigBindings' = IF executes THEN Execute(added, binding) ELSE added
             /\ addOrder' = IF executes THEN Bound(order, Execute(added, binding)) ELSE order
             /\ shouldPropagate' = (shouldPropagate /\ ~(executes /\ act = "halt"))
             /\ lastCall' = Call(op, l, FALSE,
                                 IF executes
                                 THEN <<[listener |-> l, act |-> act, isOnce |-> binding.isOnce,
                                         priority |-> binding.priority]>>
                                 ELSE <<>>,
                                 IF executes THEN prevParams ELSE NullParams)

SigAdd ==
    /\ ~disposed
    /\ \E l \in Listeners : \E isOnce \in BOOLEAN : \E p \in Priorities :
         \E act \in {a \in ListenerActs : a = "plain" \/ ReplaysMemorized(memorize, prevParams)} :
            RegisterListener(l, isOnce, p, act)
    /\ UNCHANGED <<prevParams, memorize, sigActive, disposed, lastDispatch, memorized>>
    /\ UNCHANGED notSignalVars

\* remove (lines 359-373)
SigRemove ==
    /\ ~disposed
    /\ \E l \in Listeners :
         /\ sigBindings' = WithoutListener(sigBindings, l)
         /\ addOrder' = SelectSeq(addOrder, LAMBDA x : x # l)
         /\ lastCall' = Call("remove", l, FALSE, <<>>, NullParams)
    /\ UNCHANGED <<prevParams, memorize, shouldPropagate, sigActive, disposed,
                   lastDispatch, memorized>>
    /\ UNCHANGED notSignalVars

\* removeAll (lines 378-389)
SigRemoveAll ==
    /\ ~disposed
    /\ sigBindings' = <<>>
    /\ addOrder' = <<>>
    /\ lastCall' = Call("removeAll", 0, FALSE, <<>>, NullParams)
    /\ UNCHANGED <<prevParams, memorize, shouldPropagate, sigActive, disposed,
                   lastDispatch, memorized>>
    /\ UNCHANGED notSignalVars

\* halt (lines 405-409)
SigHalt ==
    /\ shouldPropagate' = FALSE
    /\ lastCall' = Call("halt", 0, FALSE, <<>>, NullParams)
    /\ UNCHANGED <<sigBindings, prevParams, memorize, sigActive, disposed, addOrder,
                   lastDispatch, memorized>>
    /\ UNCHANGED notSignalVars

\* forget (lines 450-454)
SigForget ==
    /\ prevParams' = NullParams
    /\ lastDispatch' = NullParams
    /\ memorized' = NullParams
    /\ lastCall' = Call("forget", 0, FALSE, <<>>, NullParams)
    /\ UNCHANGED <<sigBindings, memorize, shouldPropagate, sigActive, disposed, addOrder>>
    /\ UNCHANGED notSignalVars

\* memorize and active are public fields (lines 202, 215)
SetMemorize ==
    /\ ~disposed
    /\ memorize' = ~memorize
    /\ lastCall' = Call("memorize", 0, FALSE, <<>>, NullParams)
    /\ UNCHANGED <<sigBindings, prevParams, shouldPropagate, sigActive, disposed, addOrder,
                   lastDispatch, memorized>>
    /\ UNCHANGED notSignalVars

SetActive ==
    /\ ~disposed
    /\ sigActive' = ~sigActive
    /\ lastCall' = Call("active", 0, FALSE, <<>>, NullParams)
    /\ UNCHANGED <<sigBindings, prevParams, memorize, shouldPropagate, disposed, addOrder,
                   lastDispatch, memorized>>
    /\ UNCHANGED notSignalVars

\* DispatchReturnsAtOnce altered: active is not looked at
DispatchWhateverActive(active) ==
    FALSE

\* dispatch, lines 417-420: if (!this.active) return
DispatchReturnsAtOnce(active) ==
    ~active

\* dispatch (lines 415-444) with the given arguments, when the listeners do
\* what acts says; target and priority are the arguments of the add() or
\* remove() that a listener makes
Dispatch(args, acts, target, priority) ==
    IF DispatchReturnsAtOnce(sigActive)
    THEN /\ lastCall' = Call("dispatch", target, FALSE, <<>>, ParamsArr(args))
         /\ UNCHANGED <<sigBindings, prevParams, shouldPropagate, addOrder,
                        lastDispatch, memorized>>
    ELSE LET run == RunBindings(sigBindings, Len(sigBindings), acts,
                                [live |-> sigBindings, executed |-> <<>>,
                                 propagate |-> StartPropagate(shouldPropagate),
                                 destroyed |-> {}, target |-> target, priority |-> priority,
                                 prev |-> IF memorize THEN ParamsArr(args) ELSE prevParams])
             order == IF ~Has(sigBindings, target) /\ Has(run.live, target)
                      THEN Append(addOrder, target) ELSE addOrder
         IN  /\ prevParams' = IF memorize THEN ParamsArr(args) ELSE prevParams
             /\ lastDispatch' = ParamsArr(args)
             /\ memorized' = IF memorize THEN ParamsArr(args) ELSE memorized
             /\ sigBindings' = run.live
             /\ shouldPropagate' = IF sigBindings = <<>> THEN shouldPropagate
                                   ELSE run.propagate
             /\ addOrder' = Bound(order, run.live)
             /\ lastCall' = Call("dispatch", target, FALSE, run.executed, ParamsArr(args))

\* dispatch with listeners that leave the signal's bindings alone
SigDispatch ==
    /\ ~disposed
    /\ \E args \in DispatchArgs : \E acts \in ActsOf(Len(sigBindings)) :
         Dispatch(args, acts, 0, 0)
    /\ UNCHANGED <<memorize, sigActive, disposed>>
    /\ UNCHANGED notSignalVars

\* What the n listeners of one dispatch do when the one at index k removes
\* or adds another listener
ReentrantActsOf(n, k, act) == [i \in 1..n |-> IF i = k THEN act ELSE "plain"]

\* dispatch in which one listener calls remove() for another bound
\* listener, or add() for a listener that is not bound
SigDispatchReentrant ==
    /\ ~disposed
    /\ \E args \in DispatchArgs : \E k \in 1..Len(sigBindings) :
         \E target \in Listeners \ {sigBindings[k].listener} : \E priority \in Priorities :
            Dispatch(args,
                     ReentrantActsOf(Len(sigBindings), k,
                                     IF Has(sigBindings, target) THEN "remove" ELSE "add"),
                     target, priority)
    /\ UNCHANGED <<memorize, sigActive, disposed>>
    /\ UNCHANGED notSignalVars

\* dispose (lines 460-467): removeAll, then _bindings and _prevParams are
\* deleted from the object
SigDispose ==
    /\ ~disposed
    /\ disposed' = TRUE
    /\ sigBindings' = <<>>
    /\ addOrder' = <<>>
    /\ prevParams' = NullParams
    /\ lastCall' = Call("dispose", 0, FALSE, <<>>, NullParams)
    /\ UNCHANGED <<memorize, shouldPropagate, sigActive, lastDispatch, memorized>>
    /\ UNCHANGED notSignalVars

\* The methods that read this._bindings, which dispose deleted: reading
\* .length of undefined throws a TypeError.  dispatch returns before it gets
\* there when the signal is not active.
ThrowsAfterDispose(op) ==
    \/ op \in {"add", "addOnce", "remove", "removeAll", "has", "getNumListeners"}
    \/ op = "dispatch" /\ sigActive

\* A method is called on a disposed signal.  halt and forget are the
\* actions above; they assign a field and never look at _bindings.
CallAfterDispose ==
    /\ disposed
    /\ \E op \in {"add", "addOnce", "remove", "removeAll", "has", "getNumListeners", "dispatch"} :
         lastCall' = Call(op, 0, ThrowsAfterDispose(op), <<>>, NullParams)
    /\ UNCHANGED <<sigBindings, prevParams, memorize, shouldPropagate, sigActive, disposed,
                   addOrder, lastDispatch, memorized>>
    /\ UNCHANGED notSignalVars

SignalNext ==
    \/ SigAdd
    \/ SigRemove
    \/ SigRemoveAll
    \/ SigHalt
    \/ SigForget
    \/ SetMemorize
    \/ SetActive
    \/ SigDispatch
    \/ SigDispose
    \/ CallAfterDispose

\* Listeners that add and remove listeners while the signal dispatches
ReentrantNext ==
    \/ SigAdd
    \/ SigRemove
    \/ SetMemorize
    \/ SigDispatchReentrant
\* ------------------------------------------------------------------------
\* CommandsService (src/unnamed/part_000)
\* ------------------------------------------------------------------------

\* Bound of the CommandsService specification: the number of calls
MaxCommandCalls == 2

\* The names a caller may pass, and those the injector resolves to a command
CommandNames == {"build", "help", "bild"}
RegisteredCommands == {"build", "help"}

\* $injector.resolveCommand(commandName): the command (here its name), or
\* "" for a name that resolves to nothing
ResolveCommand(commandName) ==
    IF commandName \in RegisteredCommands THEN commandName ELSE ""

\* What a call did, as it happened
HookEvent(command, commandName) ==
    [event |-> "hook", command |-> command, commandName |-> commandName]
ExecuteEvent(command, commandName) ==
    [event |-> "execute", command |-> command, commandName |-> commandName]

\* executeCommandUnchecked (lines 16-27).  hook says whether a
\* beforeExecuteCommandHook was passed, throws whether the command's execute
\* fails.
ExecuteCommandUnchecked(commandName, hook, throws) ==
    LET command == ResolveCommand(commandName)
    IN  IF command # ""
        THEN [events |-> (IF hook THEN <<HookEvent(command, commandName)>> ELSE <<>>)
                            \o <<ExecuteEvent(command, commandName)>>,
              result |-> IF throws THEN "threw" ELSE "true"]
        ELSE [events |-> <<>>, result |-> "false"]

\* executeCommand (lines 29-33): both closures given to $errors.beginCommand
\* call executeCommandUnchecked without the hook.  beginCommand belongs to
\* the Errors service: it runs the first closure and returns its result;
\* when that throws it may run the second one (the help of the command)
\* and returns false or lets the failure through.
ExecuteCommand(commandName, hook, throws, showsHelp, rethrows) ==
    LET action == ExecuteCommandUnchecked(commandName, FALSE, throws)
        printCommandHelp == ExecuteCommandUnchecked("help", FALSE, FALSE)
    IN  IF action.result # "threw" THEN action
        ELSE [events |-> action.events
                            \o (IF showsHelp THEN printCommandHelp.events ELSE <<>>),
              result |-> IF rethrows THEN "threw" ELSE "false"]

\* tryExecuteCommand (lines 35-40): executeCommand is called without the
\* hook; after a result of false the unknown-command message is logged
TryExecuteCommand(commandName, hook, throws, showsHelp, rethrows) ==
    LET executed == ExecuteCommand(commandName, FALSE, throws, showsHelp, rethrows)
    IN  IF executed.result = "false"
        THEN [events |-> Append(executed.events,
                                [event |-> "fatal", command |-> "", commandName |-> commandName]),
              result |-> "void"]
        ELSE [events |-> executed.events,
              result |-> IF executed.result = "threw" THEN "threw" ELSE "void"]

CommandsInit == commandHistory = <<>>

CommandsIdle == CommandsInit

\* The record of one call
CommandCall(entry, commandName, hook, outcome) ==
    [entry |-> entry, commandName |-> commandName, hook |-> hook,
     events |-> outcome.events, result |-> outcome.result]

CallExecuteCommandUnchecked ==
    /\ Len(commandHistory) < MaxCommandCalls
    /\ \E commandName \in CommandNames : \E hook \in BOOLEAN : \E throws \in BOOLEAN :
         commandHistory' =
            Append(commandHistory,
                   CommandCall("executeCommandUnchecked", commandName, hook,
                               ExecuteCommandUnchecked(commandName, hook, throws)))
    /\ UNCHANGED notCommandsVars

CallExecuteCommand ==
    /\ Len(commandHistory) < MaxCommandCalls
    /\ \E commandName \in CommandNames : \E hook \in BOOLEAN : \E throws \in BOOLEAN :
         \E showsHelp \in BOOLEAN : \E rethrows \in BOOLEAN :
            commandHistory' =
               Append(commandHistory,
                      CommandCall("executeCommand", commandName, hook,
                                  ExecuteCommand(commandName, hook, throws, showsHelp,
                                                 rethrows)))
    /\ UNCHANGED notCommandsVars

CallTryExecuteCommand ==
    /\ Len(commandHistory) < MaxCommandCalls
    /\ \E commandName \in CommandNames : \E hook \in BOOLEAN : \E throws \in BOOLEAN :
         \E showsHelp \in BOOLEAN : \E rethrows \in BOOLEAN :
            commandHistory' =
               Append(commandHistory,
                      CommandCall("tryExecuteCommand", commandName, hook,
                                  TryExecuteCommand(commandName, hook, throws, showsHelp,
                                                    rethrows)))
    /\ UNCHANGED notCommandsVars

CommandsNext ==
    \/ CallExecuteCommandUnchecked
    \/ CallExecuteCommand
    \/ CallTryExecuteCommand
\* ------------------------------------------------------------------------
\* Specifications
\* ------------------------------------------------------------------------

InitPosix ==
    /\ PosixInit
    /\ CompletionIdle
    /\ GdbIdle
    /\ SendIdle
    /\ StreamIdle
    /\ RecvIdle
    /\ PlistSendIdle
    /\ CodecIdle
    /\ SignalIdle
    /\ SendAllIdle
    /\ CommandsIdle
SpecPosix == InitPosix /\ [][PosixNext]_vars
SpecCalls == InitPosix /\ [][CallsNext]_vars

InitCompletion ==
    /\ CompletionInit
    /\ PosixIdle
    /\ GdbIdle
    /\ SendIdle
    /\ StreamIdle
    /\ RecvIdle
    /\ PlistSendIdle
    /\ CodecIdle
    /\ SignalIdle
    /\ SendAllIdle
    /\ CommandsIdle
SpecCompletion == InitCompletion /\ [][CompletionNext]_vars

InitGdb ==
    /\ GdbInit
    /\ PosixIdle
    /\ CompletionIdle
    /\ SendIdle
    /\ StreamIdle
    /\ RecvIdle
    /\ PlistSendIdle
    /\ CodecIdle
    /\ SignalIdle
    /\ SendAllIdle
    /\ CommandsIdle
SpecGdb == InitGdb /\ [][GdbNext]_vars

InitSend ==
    /\ SendInit
    /\ PosixIdle
    /\ CompletionIdle
    /\ GdbIdle
    /\ StreamIdle
    /\ RecvIdle
    /\ PlistSendIdle
    /\ CodecIdle
    /\ SignalIdle
    /\ SendAllIdle
    /\ CommandsIdle
SpecSend == InitSend /\ [][SendNext]_vars

InitStream ==
    /\ StreamInit
    /\ PosixIdle
    /\ CompletionIdle
    /\ GdbIdle
    /\ SendIdle
    /\ RecvIdle
    /\ PlistSendIdle
    /\ CodecIdle
    /\ SignalIdle
    /\ SendAllIdle
    /\ CommandsIdle
SpecStream == InitStream /\ [][StreamNext]_vars

InitRecv ==
    /\ RecvInit
    /\ PosixIdle
    /\ CompletionIdle
    /\ GdbIdle
    /\ SendIdle
    /\ StreamIdle
    /\ PlistSendIdle
    /\ CodecIdle
    /\ SignalIdle
    /\ SendAllIdle
    /\ CommandsIdle
SpecRecv == InitRecv /\ [][RecvNext]_vars

InitPlistSend ==
    /\ PlistSendInit
    /\ PosixIdle
    /\ CompletionIdle
    /\ GdbIdle
    /\ SendIdle
    /\ StreamIdle
    /\ RecvIdle
    /\ CodecIdle
    /\ SignalIdle
    /\ SendAllIdle
    /\ CommandsIdle
SpecPlistSend == InitPlistSend /\ [][PlistSendNext]_vars


InitLength ==
    /\ LengthInit
    /\ CompletionIdle
    /\ GdbIdle
    /\ SendIdle
    /\ StreamIdle
    /\ RecvIdle
    /\ PlistSendIdle
    /\ CodecIdle
    /\ SignalIdle
    /\ SendAllIdle
    /\ CommandsIdle
SpecLength == InitLength /\ [][PosixNext]_vars

InitClose ==
    /\ CloseInit
    /\ CompletionIdle
    /\ GdbIdle
    /\ SendIdle
    /\ StreamIdle
    /\ RecvIdle
    /\ PlistSendIdle
    /\ CodecIdle
    /\ SignalIdle
    /\ SendAllIdle
    /\ CommandsIdle
SpecClose == InitClose /\ [][CloseNext]_vars /\ CloseFairness

InitCodec ==
    /\ CodecInit
    /\ PosixIdle
    /\ CompletionIdle
    /\ GdbIdle
    /\ SendIdle
    /\ StreamIdle
    /\ RecvIdle
    /\ PlistSendIdle
    /\ SignalIdle
    /\ SendAllIdle
    /\ CommandsIdle
SpecCodec == InitCodec /\ [][CodecNext]_vars

InitSignal ==
    /\ SignalInit
    /\ PosixIdle
    /\ CompletionIdle
    /\ GdbIdle
    /\ SendIdle
    /\ StreamIdle
    /\ RecvIdle
    /\ PlistSendIdle
    /\ CodecIdle
    /\ SendAllIdle
    /\ CommandsIdle
SpecSignal == InitSignal /\ [][SignalNext]_vars
SpecReentrant == InitSignal /\ [][ReentrantNext]_vars

InitXml ==
    /\ XmlInit
    /\ CompletionIdle
    /\ GdbIdle
    /\ SendIdle
    /\ StreamIdle
    /\ RecvIdle
    /\ PlistSendIdle
    /\ CodecIdle
    /\ SignalIdle
    /\ SendAllIdle
    /\ CommandsIdle
SpecXml == InitXml /\ [][CloseNext]_vars

InitSendAll ==
    /\ SendAllInit
    /\ PosixIdle
    /\ CompletionIdle
    /\ GdbIdle
    /\ SendIdle
    /\ StreamIdle
    /\ RecvIdle
    /\ PlistSendIdle
    /\ CodecIdle
    /\ SignalIdle
    /\ CommandsIdle
SpecSendAll == InitSendAll /\ [][SendAllNext]_vars /\ SendAllFairness

InitCommands ==
    /\ CommandsInit
    /\ PosixIdle
    /\ CompletionIdle
    /\ GdbIdle
    /\ SendIdle
    /\ StreamIdle
    /\ RecvIdle
    /\ PlistSendIdle
    /\ CodecIdle
    /\ SignalIdle
    /\ SendAllIdle
SpecCommands == InitCommands /\ [][CommandsNext]_vars
\* ---- Claims about the streaming parser ----

AllDecodable(fs) == \A i \in 1..Len(fs) : ParseBuffer(fs[i]).ok

\* What the parser records for frame i of the stream
CompletedFrame(i) == [payload |-> frames[i], ok |-> ParseBuffer(frames[i]).ok]

\* The future after the decodable frames among the first k were handled
RECURSIVE ResultAfter(_)
ResultAfter(k) ==
    IF k = 0 THEN PendingFuture
    ELSE IF ParseBuffer(frames[k]).ok
         THEN HandleMessage(ParseBuffer(frames[k]).message, ResultAfter(k - 1))
         ELSE ResultAfter(k - 1)

\* C1: N >= 0 well-formed frames, delivered to the one 'data' handler under
\* any split into chunks, complete exactly N frames, in the original order,
\* each with exactly its payload bytes, and the parser ends in state Length
\* with an empty buffer.
C1_FramingUnderChunking ==
    (inbound = <<>> /\ Len(results) = 1 /\ AllDecodable(frames)) =>
        /\ completed = [i \in 1..Len(frames) |-> [payload |-> frames[i], ok |-> TRUE]]
        /\ state = "Length"
        /\ length = 4
        /\ buffer = <<>>

\* Two well-formed frames went through the handler one byte at a time
C1_Witness ==
    /\ inbound = <<>> /\ Len(results) = 1 /\ byteWise
    /\ Len(frames) = 2 /\ AllDecodable(frames) /\ Len(completed) = 2

\* C10: a frame whose payload fails to decode is still consumed with exactly
\* its declared number of bytes, the parser returns to Length, the pending
\* receive is neither failed nor returned because of it, and the frames after
\* it are processed as usual: at every point the completed frames are the
\* first frames of the stream, the unread rest of the stream is exactly what
\* the buffer and the socket still hold, and the future is what the decodable
\* frames alone make it.
C10_MalformedFrameRecovery ==
    (Len(results) = 1 /\ ~AllDecodable(frames)) =>
        LET k == Len(completed)
            rest == FramesBytes(SubSeq(frames, k + 1, Len(frames)))
        IN  /\ k <= Len(frames)
            /\ \A i \in 1..k : completed[i] = CompletedFrame(i)
            /\ state = "Length" => (length = 4 /\ buffer \o inbound = rest)
            /\ state = "Plist" => Pack32BE(length) \o buffer \o inbound = rest
            /\ results[1] = ResultAfter(k)

\* A frame that failed to decode was followed by one that returned the future
C10_Witness ==
    /\ Len(results) = 1 /\ Len(completed) = 2 /\ inbound = <<>>
    /\ ~completed[1].ok /\ Len(completed[1].payload) > 0
    /\ completed[2].ok /\ results[1].resolved


\* Some receive is outstanding
ReceivePending == \E i \in 1..Len(results) : ~results[i].resolved

\* Every receive ended, those that were outstanding with a failure
NoReceivePending == \A i \in 1..Len(results) : results[i].resolved

\* C16: if close() is called (or the peer ends the stream) while a receive
\* is outstanding, that receive eventually completes with a failure; it
\* never stays pending forever.
C16_CancellationOnClose ==
    (socketState # "open" /\ ReceivePending) ~> NoReceivePending

\* close() was called while a receive was outstanding
C16_Witness == socketState = "destroyed" /\ Len(results) = 1 /\ ReceivePending

\* The bytes that follow the prefix
AfterPrefix == BufferSliceFrom(sentBytes, 4)

\* The prefix declares more bytes than the stream ever delivers (as an
\* unsigned number every prefix with the high bit set does)
DeclaresMoreThanSent == sentBytes[1] >= 128 \/ ReadInt32BE(sentBytes) > Len(AfterPrefix)

\* C19: the 4-byte prefix is a big-endian unsigned length; for every prefix
\* value, also with the high bit set, the parser waits until exactly that
\* many payload bytes are buffered and then removes exactly those bytes from
\* the front of the buffer, never discarding or re-reading other bytes.
C19_UnsignedFrameLength ==
    (Len(results) = 1 /\ Len(sentBytes) >= 4) =>
        /\ (state = "Length" /\ completed = <<>>) => buffer \o inbound = sentBytes
        /\ (state = "Plist" /\ completed = <<>>) => buffer \o inbound = AfterPrefix
        /\ IF DeclaresMoreThanSent
           THEN completed = <<>>
           ELSE Len(completed) >= 1 =>
                    /\ completed[1].payload = BufferSlice(AfterPrefix, 0, ReadInt32BE(sentBytes))
                    /\ Len(completed) = 1 =>
                          buffer \o inbound = BufferSliceFrom(AfterPrefix, ReadInt32BE(sentBytes))

\* A prefix with the high bit set was read while payload bytes were at hand
C19_Witness ==
    /\ Len(results) = 1 /\ Len(sentBytes) >= 6 /\ sentBytes[1] >= 128
    /\ Len(sentBytes) - Len(inbound) >= 6

\* C28: in every reachable state of the Binary-mode parser, state Length
\* implies the expected length is 4; the Length->Plist transition fires only
\* when at least 4 bytes are buffered and removes exactly 4; the
\* Plist->Length transition fires only when at least the expected length is
\* buffered and removes exactly that many bytes (from the front); and when
\* the data handler returns, the buffer holds fewer bytes than the current
\* state needs.
C28_ParserStateInvariant ==
    /\ state = "Length" => length = 4
    /\ \A i \in 1..Len(transitions) :
         LET t == transitions[i]
         IN  /\ t.from = "Length" => t.need = 4
             /\ t.enough
             /\ t.removed = t.need
             /\ t.kept
    /\ Len(buffer) < length

\* A frame was declared by a prefix with the high bit set and the parser
\* went through both transitions
C28_Witness ==
    /\ Len(sentBytes) >= 6 /\ sentBytes[1] >= 128
    /\ Len(transitions) >= 2 /\ transitions[2].from = "Plist"

\* C33: for any sequence of receiveMessage calls on one socket, a second
\* call after the first was resolved included, every chunk is appended to
\* the buffer once and every frame is processed once: the processed frames
\* are the first frames of the stream, each one time, and the buffer and
\* the socket hold exactly the unread rest of the stream.
C33_SingleAccumulation ==
    LET k == Len(completed)
        rest == FramesBytes(SubSeq(frames, k + 1, Len(frames)))
    IN  /\ k <= Len(frames)
        /\ \A i \in 1..k : completed[i] = CompletedFrame(i)
        /\ state = "Length" => buffer \o inbound = rest
        /\ state = "Plist" => Pack32BE(length) \o buffer \o inbound = rest

\* receiveMessage was called again after the first future was returned, and
\* the second frame of the stream was then processed twice
C33_Witness ==
    /\ Len(results) = 2 /\ results[1].resolved
    /\ Len(frames) = 2 /\ Len(completed) = 3
    /\ completed[2] = completed[3]

\* The decoded messages so far whose Status is "Complete", in order
CompleteMessages ==
    SelectSeq([i \in 1..Len(completed) |-> ParseBuffer(completed[i].payload)],
              LAMBDA parsed : parsed.ok /\ parsed.message.Status = Str("Complete"))

\* C34: over any sequence of data and error events the future of a
\* receiveMessage call is completed (returned or thrown) at most once; the
\* future of the one call of a Binary-format socket is returned with the
\* first decoded message whose Status is "Complete" and with no other
\* message: while only messages of another Status were decoded it is
\* pending or, after an error, failed.
C34_ResolvedOnce ==
    /\ \A i \in 1..Len(results) :
          /\ results[i].completions <= 1
          /\ results[i].resolved <=> results[i].completions = 1
    /\ (posixFormat = BinaryFormat /\ Len(results) = 1) =>
          IF CompleteMessages # <<>>
          THEN /\ results[1].resolved /\ ~results[1].failed
               /\ results[1].value = CompleteMessages[1].message
          ELSE ~results[1].resolved \/ results[1].failed

\* A progress message, a "Complete" message and then an error event
C34_Witness ==
    /\ Len(results) = 1 /\ results[1].resolved /\ ~results[1].failed
    /\ Len(completed) = 2 /\ Len(CompleteMessages) = 1
    /\ ParseBuffer(completed[1].payload).message.Status # Str("Complete")
    /\ socketState = "destroyed"

\* C35: in Xml format the pending receive is returned on the first inbound
\* chunk, with the parsed dictionary when the buffer parses and with an
\* empty dictionary when it does not; a parse failure never fails the
\* receive (only an error event before the first chunk does), and the
\* buffer is never consumed: it holds every byte delivered so far.
C35_XmlReceive ==
    (posixFormat = XmlFormat /\ Len(results) = 1) =>
        /\ buffer \o inbound = XmlBytes(frames)
        /\ IF completed = <<>>
           THEN results[1].resolved => (results[1].failed /\ socketState = "destroyed")
           ELSE /\ results[1].resolved /\ ~results[1].failed
                /\ results[1].value =
                      IF XmlParse(completed[1].payload).kind = "value"
                      THEN XmlDictionary(completed[1].payload)
                      ELSE NoMessage

\* The first chunk did not parse and the future was returned with {}; a
\* later chunk did not change it
C35_Witness ==
    /\ posixFormat = XmlFormat /\ Len(results) = 1
    /\ Len(completed) = 2 /\ ~completed[1].ok
    /\ results[1].resolved /\ ~results[1].failed /\ results[1].value = NoMessage
    /\ Len(buffer) = 2
\* ---- Claims about GDBServer ----

\* The six writes that precede the resume directive, in the claimed order
HandshakeWrites ==
    << PacketData(QStartNoAckMode), <<Plus>>, PacketData(QEnvironmentHexEncoded),
       PacketData(QSetDisableASLR), PacketData(<<65>> \o EncodedArguments(argv)),
       PacketData(QLaunchSuccess) >>

ResumeWrites == {PacketData(VCont), PacketData(Detach)}

\* C3: run writes, in exactly this order and each exactly once, the packet
\* QStartNoAckMode, the raw byte '+', the packets QEnvironmentHexEncoded:,
\* QSetDisableASLR:1, 'A' + encoded arguments and qLaunchSuccess, and then
\* exactly one resume directive; nothing is repeated and nothing is written
\* between these steps (in every call of run, for every argument list and
\* configuration).
C3_HandshakeOrder ==
    /\ Len(written) = 7 * runs + gdbPc
    /\ \A i \in 1..Len(written) :
         LET k == ((i - 1) % 7) + 1
         IN  IF k <= 6 THEN written[i] = HandshakeWrites[k]
             ELSE written[i] \in ResumeWrites

\* A run with two arguments went through all seven writes
C3_Witness == runs = 1 /\ gdbPc = 0 /\ Len(argv) = 2 /\ Len(written) = 7

\* Two lowercase hexadecimal digits, zero-padded
TwoHexDigits(n) == <<DigitChar(n \div 16), DigitChar(n % 16)>>

\* C4: for every payload accepted by send, the bytes written are
\* '$' + payload + '#' + cc where cc is exactly two lowercase hexadecimal
\* digits (zero-padded when the checksum is below 16) encoding (sum of the
\* payload's character codes) mod 256.
C4_PacketEncoding ==
    (sent.called /\ ~sent.threw) =>
        sent.writes = << <<Dollar>> \o packetArg \o <<Hash>>
                         \o TwoHexDigits(SumOfCodes(packetArg) % 256) >>

\* send was called with a payload whose checksum is below 16
C4_Witness ==
    /\ sent.called /\ ~sent.threw
    /\ Len(packetArg) > 0 /\ SumOfCodes(packetArg) % 256 < 16


\* The resume directive the configuration calls for, whatever the host
ConfiguredDirective == IF justlaunch THEN Detach ELSE VCont

\* C11: on every host platform, after qLaunchSuccess run sends the detach
\* packet 'D' and never 'vCont;c' when the session is launch-only
\* (justlaunch), and sends 'vCont;c' and never 'D' otherwise.
C11_ResumeDirective ==
    \A i \in 1..Len(written) :
        /\ (i % 7 = 0) => written[i] = PacketData(ConfiguredDirective)
        /\ written[i] \in ResumeWrites => written[i] = PacketData(ConfiguredDirective)

\* A launch-only run on a Windows host has sent its resume directive
C11_Witness == hostIsWindows /\ justlaunch /\ runs = 1 /\ Len(written) = 7

\* C12: a payload with a code unit in 0xD800..0xFFFF makes send fail, and
\* nothing is written for that packet: no checksum, no partial '$...' bytes.
C12_CharacterValidation ==
    (sent.called /\ \E i \in 1..Len(packetArg) : 55296 <= packetArg[i] /\ packetArg[i] <= 65535)
        => (sent.threw /\ sent.writes = <<>>)

\* send was called with a payload that holds a lone surrogate after
\* accepted characters
C12_Witness ==
    /\ sent.called /\ Len(packetArg) >= 2
    /\ packetArg[1] = 64 /\ packetArg[Len(packetArg)] = 55296

\* The triple '2L,i,H' with L the byte length of the argument
ClaimedArgument(arg, index) ==
    NumberToString(Len(Utf8Encode(arg)) * 2, 10) \o <<Comma>> \o NumberToString(index, 10)
        \o <<Comma>> \o HexString(Utf8Encode(arg))

RECURSIVE ClaimedJoin(_, _)
ClaimedJoin(args, n) ==
    IF n = 0 THEN <<>>
    ELSE IF n = 1 THEN ClaimedArgument(args[1], 0)
    ELSE ClaimedJoin(args, n - 1) \o <<Comma>> \o ClaimedArgument(args[n], n - 1)

\* C13: the payload of the 'A' packet is 'A' followed by the triples
\* '2L,i,H' joined with ',', where H is the hex encoding of argument i's
\* bytes and L its byte length, so the first field of every triple is the
\* number of hex digits of H (also for multi-byte characters).
C13_ArgumentEncoding ==
    \A i \in 1..Len(written) :
        (i % 7 = 5) => written[i] = PacketData(<<65>> \o ClaimedJoin(argv, Len(argv)))

\* The 'A' packet was written for an argument with a two-byte character
C13_Witness ==
    /\ gdbPc = 5 /\ runs = 0
    /\ \E k \in 1..Len(argv) : \E j \in 1..Len(argv[k]) : argv[k][j] = 233

\* C18: once the resume or detach directive has been sent on a channel, no
\* handshake packet is written on that channel again (a second run on the
\* same GDBServer does not restart the handshake).
C18_SessionLifecycle == runs >= 1 => Len(written) = 7

\* The directive of the first run has been sent
C18_Witness == runs = 1 /\ gdbPc = 0 /\ Len(written) = 7
\* ---- Claims about the inbound debug stream ----

\* A stop-reply packet ('$T' or '$S') whose third payload byte is '9' starts
\* somewhere in the chunk
HasKillStopReply(chunk) ==
    \E i \in 0..(Len(chunk) - 4) :
        /\ ByteAt(chunk, i) = Dollar
        /\ ByteAt(chunk, i + 1) \in {LetterT, LetterS}
        /\ ByteAt(chunk, i + 3) = Digit9

HasStopReply(chunk) ==
    \E i \in 0..(Len(chunk) - 4) :
        /\ ByteAt(chunk, i) = Dollar
        /\ ByteAt(chunk, i + 1) \in {LetterT, LetterS}

\* C5: when an inbound chunk contains a stop-reply packet beginning '$T' or
\* '$S' whose third payload byte is the character '9' (signal 9, e.g.
\* '$T09...#cc'), the watcher terminates the host process with a non-zero exit
\* code; when the stop reply carries another signal (e.g. '$T05...#cc') the
\* process is not terminated.
C5_SignalWatcher ==
    (lastChunk # <<>> /\ process \in {"running", "exit1"}) =>
        /\ HasKillStopReply(lastChunk) => process = "exit1"
        /\ (HasStopReply(lastChunk) /\ ~HasKillStopReply(lastChunk)) => process = "running"

\* The watcher was handed a chunk that holds the whole packet $T09#8d
C5_Witness ==
    /\ process \in {"running", "exit1"}
    /\ lastChunk = DevicePacket(<<LetterT, 48, Digit9>>)

\* Number of bytes of the first k packets of the stream
PacketBoundary(k) == Len(DevicePackets(SubSeq(inboundPackets, 1, k)))

\* The last chunk is made of the complete packets a+1 .. b of the stream
ChunkIsPackets(a, b) ==
    /\ a < b
    /\ delivered = PacketBoundary(a)
    /\ delivered + Len(lastChunk) = PacketBoundary(b)

\* The bytes of the console output among packets a+1 .. b: for a packet whose
\* first payload byte is 'O' and whose second is not 'K', the hex-decoded
\* bytes after the 'O'; nothing for any other packet
RECURSIVE ConsoleBytes(_, _)
ConsoleBytes(a, b) ==
    IF a >= b THEN <<>>
    ELSE LET p == inboundPackets[a + 1]
         IN  (IF Len(p) >= 1 /\ p[1] = LetterO /\ ~(Len(p) >= 2 /\ p[2] = LetterK)
              THEN HexDecode(Tail(p)) ELSE <<>>) \o ConsoleBytes(a + 1, b)

\* C6: for every inbound chunk made of complete '$...#hh' packets, the
\* adapter emits text only for packets whose first payload byte is 'O' and
\* whose second payload byte is not 'K'; the emitted text is the
\* concatenation, in packet order, of the hex-decoded bytes after the leading
\* 'O' of each such packet (as text: through the UTF-8 decoder), and every
\* other packet, a bare 'OK' included, contributes nothing.
C6_OutputAdapterFiltering ==
    \A a \in 0..Len(inboundPackets) : \A b \in 0..Len(inboundPackets) :
        ChunkIsPackets(a, b) =>
            /\ lastOutput.outcome = "done"
            /\ lastOutput.text = Utf8Write(prevPending, ConsoleBytes(a, b), <<>>).text

\* One chunk held $OK#9a followed by $O68#bd and the adapter emitted "h"
C6_Witness ==
    /\ inboundPackets = << <<LetterO, LetterK>>, <<LetterO, 54, 56>> >>
    /\ ChunkIsPackets(0, 2)
    /\ lastOutput = [outcome |-> "done", text |-> <<104>>]


\* The bytes the socket has emitted so far
EmittedBytes == SubSeq(DevicePackets(inboundPackets), 1, delivered + Len(lastChunk))

\* C17: in a session resumed with 'vCont;c' the output adapter and the
\* signal watcher both observe every inbound chunk, in arrival order;
\* processing by one consumer never removes or alters bytes seen by the other.
C17_FanOut ==
    /\ adapterSeen = EmittedBytes
    /\ watcherSeen = EmittedBytes

\* Two chunks went through both consumers
C17_Witness ==
    /\ delivered > 0 /\ lastChunk # <<>>
    /\ Len(adapterSeen) = delivered + Len(lastChunk)
    /\ Len(watcherSeen) = delivered + Len(lastChunk)

\* C29: when the bytes of one multi-byte code point are split between two
\* consecutive console-output packets (in one chunk or in successive
\* chunks), the adapter emits nothing for the incomplete prefix after the
\* first packet and the complete code point exactly once after the second;
\* the concatenated output equals the UTF-8 decoding of the concatenated
\* packet bytes.
C29_Utf8AcrossPackets ==
    \A b \in 0..Len(inboundPackets) :
        (process = "running" /\ delivered + Len(lastChunk) = PacketBoundary(b)) =>
            /\ stdout = Utf8Write(<<>>, ConsoleBytes(0, b), <<>>).text
            /\ utf8Pending = Utf8Write(<<>>, ConsoleBytes(0, b), <<>>).pending

\* The two halves of U+00E9 came in two packets and two chunks, and the
\* character was written once, after the second
C29_Witness ==
    /\ inboundPackets = << <<LetterO, 99, 51>>, <<LetterO, 97, 57>> >>
    /\ process = "running" /\ delivered = PacketBoundary(1) /\ ChunkIsPackets(1, 2)
    /\ lastOutput.text = <<233>> /\ stdout = <<233>>

\* C31: for every inbound chunk, a chunk that holds a '$' with no '#' behind
\* it included, _transform returns and has called done exactly once
\* (done(null, result) or done(e)).
C31_TransformTerminates ==
    lastChunk # <<>> => lastOutput.outcome \in {"done", "error"}

\* The chunk ended between the '$' and the '#' of a packet
C31_Witness ==
    /\ lastChunk = <<Dollar, LetterO>>
    /\ FindHash(lastChunk, 1) = -1
    /\ lastOutput.outcome = "hung"

\* The whole inbound byte sequence
WholeStream == DevicePackets(inboundPackets)

\* C32: when the watcher exits on the inbound byte sequence handed to it as
\* one chunk, the process is terminated under every split of the sequence
\* into chunks: once the bytes are all delivered, or the processing has
\* stopped, the process has exited, and the watcher run on the two pieces of
\* any split in two finds the stop reply in one of them.
C32_KillDetectionUnderChunking ==
    WatcherExits(WholeStream) =>
        /\ (debugInbound = <<>> \/ process # "running") => process = "exit1"
        /\ (delivered = 0 /\ lastChunk # <<>>) =>
              WatcherExits(lastChunk) \/ WatcherExits(debugInbound)

\* The first chunk ended between the 'T' and the signal digits of $T90#8d
C32_Witness ==
    /\ WatcherExits(WholeStream)
    /\ delivered = 0
    /\ lastChunk = <<Dollar, LetterT>>
    /\ ~WatcherExits(lastChunk) /\ ~WatcherExits(debugInbound)
    /\ process # "exit1"
\* ---- Claims about the synchronous receive ----

\* C7: if the underlying read returns zero bytes (peer closed) at any point
\* before the full message has been assembled - while reading the 4-byte
\* length prefix or while reading the payload - receiveMessage fails with an
\* error and never returns a value.
C7_CloseFailsReceive ==
    zeroRead => (recvPc = "failed" /\ returned.kind = "threw")

\* The connection was found closed by the read of the length prefix
C7_Witness == zeroRead /\ declared = 0 /\ lengthData = <<>> /\ recvPc \in {"done", "failed"}

\* C8: when every recv delivers between 1 and the requested number of bytes,
\* receiveMessageCore assembles exactly the 4 length bytes and then exactly
\* the declared number of payload bytes, consisting only of bytes actually
\* received from the stream, in arrival order.
C8_PartialReads ==
    (recvPc = "done" /\ ~zeroRead) =>
        /\ Len(peerAll) >= 4 + declared
        /\ lengthData = BufferSlice(peerAll, 0, 4)
        /\ winReply = BufferSlice(peerAll, 4, 4 + declared)
        /\ peerBytes = BufferSliceFrom(peerAll, 4 + declared)

\* A payload read delivered fewer bytes than asked for and the call returned
C8_Witness == recvPc = "done" /\ ~zeroRead /\ shortRead /\ Len(lengthData) = 4 /\ declared = 2


\* C20: for a channel created with format Xml or Binary, a successful
\* receiveMessage returns the decoded structured value of the assembled
\* payload, never a null or absent value.
C20_ReceiveDecodes ==
    (recvPc = "done" /\ ~zeroRead) =>
        (returned.kind = "value" /\ returned.text = winReply)

\* A Binary-format channel received a whole message in full reads
C20_Witness ==
    /\ recvPc = "done" /\ winFormat = BinaryFormat /\ ~zeroRead /\ ~shortRead
    /\ declared = 2 /\ Len(winReply) = 2 /\ peerBytes = <<>>
\* ---- Claim about sendMessage ----

\* C9: for every non-string message, sendMessage (WinSocket and PosixSocket)
\* puts on the stream exactly the 4-byte big-endian length of the encoded
\* payload followed by all of the payload bytes, prefix first, contiguous,
\* with no byte missing even when the underlying write accepts fewer bytes
\* than offered.
C9_SendFraming ==
    (sends > 0 /\ ~lastMessage.isString /\ writtenBytes >= 0) =>
        wire = wireBefore \o Pack32BE(Len(lastMessage.bytes)) \o lastMessage.bytes

\* A dictionary was sent and the underlying write took only part of it
C9_Witness ==
    /\ sends > 0 /\ ~lastMessage.isString /\ hostInfo = "windows"
    /\ writtenBytes >= 0 /\ writtenBytes < 4 + Len(lastMessage.bytes)


\* C21: whenever the underlying write reports a failure (a negative result)
\* during sendMessage, the call fails with an error to the caller instead of
\* returning normally.
C21_WriteFailureSurfaced ==
    (sends > 0 /\ writtenBytes < 0) => sendOutcome = "threw"

\* The write of a WinSocket.sendMessage reported -1
C21_Witness == sends > 0 /\ hostInfo = "windows" /\ writtenBytes = -1 /\ sendOutcome # "none"
\* ------------------------------------------------------------------------
\* Properties of WinSocket.sendAll
\* ------------------------------------------------------------------------

\* C36: for every buffer and every sequence of results of send (partial
\* writes, zero-byte writes, negative results) sendAll comes to an end:
\* it returns or it fails.
C36_SendAllTerminates ==
    (sendAllPc = "loop") ~> (sendAllPc \in {"returned", "failed"})

\* send() took nothing of a buffer that is partly sent, and the loop goes on
\* with the same data
C36_Witness ==
    /\ sendAllPc = "loop"
    /\ lastResult = 0
    /\ accepted # <<>>
    /\ Len(sendAllData) > 0
    /\ accepted \o sendAllData = offered

\* ---- Claims about the codec ----

\* Built from Text, Bytes and Dictionary only
RECURSIVE Supported(_)
RECURSIVE AllSupported(_)
Supported(v) ==
    \/ v.tag \in {"string", "buffer"}
    \/ v.tag = "object" /\ AllSupported(v.entries)

AllSupported(es) == es = <<>> \/ (Supported(Head(es).value) /\ AllSupported(Tail(es)))

\* C14: for every value built from Text, Bytes and Dictionary with unique
\* keys and each of the two formats, decoding the encoding of the value
\* yields a value equal to it in variant and content.
C14_CodecRoundTrip ==
    (codecPc = "decoded" /\ Supported(codecValue)) => decoded = codecValue

\* A dictionary with a nested dictionary that holds non-ASCII text went
\* through encode and decode
C14_Witness ==
    /\ codecPc = "decoded" /\ Supported(codecValue)
    /\ codecValue.entries # <<>>
    /\ codecValue.entries[1].value.tag = "object"
    /\ codecValue.entries[1].value.entries # <<>>
    /\ codecValue.entries[1].value.entries[1].value = JsString(<<233>>)

\* C15: encoding a dictionary that contains a value outside Text, Bytes and
\* Dictionary (an Integer, a boolean) fails with an error and produces no
\* encoded bytes, rather than encoding the value as something else; this
\* holds for CoreFoundation's encoder and for WinSocket.createPlist.
C15_UnsupportedValues ==
    ~Supported(codecValue) =>
        /\ codecPc # "start" => (codecPc = "failed" /\ encoding.threw /\ encoding.bytes = <<>>)
        /\ winPlist # NoPlist => winPlist.threw

\* A dictionary with an Integer was handed to the encoder
C15_Witness ==
    /\ codecPc # "start"
    /\ codecValue = JsObject(<<[key |-> Key(1), value |-> JsNumber(5)]>>)

\* C30: for a message dictionary whose value under some key is itself a
\* non-empty dictionary, the plist built by WinSocket.createPlist contains
\* that nested dictionary with all of its key/value pairs.
C30_NestedDictionaries ==
    winPlist # NoPlist =>
        \A i \in 1..Len(codecValue.entries) :
            LET nested == codecValue.entries[i].value
                built == winPlist.value[i]
            IN  nested.tag = "object" =>
                    /\ built.type = "dict"
                    /\ Len(built.value.entries) = Len(nested.entries)
                    /\ \A j \in 1..Len(nested.entries) :
                          built.value.entries[j].key = nested.entries[j].key

\* createPlist was given a dictionary that holds a non-empty dictionary
C30_Witness ==
    /\ winPlist # NoPlist
    /\ \E i \in 1..Len(codecValue.entries) :
          /\ codecValue.entries[i].value.tag = "object"
          /\ codecValue.entries[i].value.entries # <<>>
\* ------------------------------------------------------------------------
\* Properties of Signal
\* ------------------------------------------------------------------------

\* The place of listener l in the order of adding
AddedAt(order, l) == CHOOSE i \in 1..Len(order) : order[i] = l

\* The listeners that a call executed through a binding made by addOnce
ExecutedOnce(call) ==
    {call.executed[i].listener : i \in {j \in 1..Len(call.executed) : call.executed[j].isOnce}}

AllPlain(call) == \A i \in 1..Len(call.executed) : call.executed[i].act = "plain"

\* C22: a dispatch executes the bound listeners by non-increasing priority,
\* and listeners of the same priority in the order in which they were
\* added; when no listener stops the propagation, every bound listener is
\* executed.
C22_DispatchOrder ==
    [][(lastCall'.op = "dispatch" /\ ~disposed /\ sigActive) =>
         LET ex == lastCall'.executed
         IN  /\ \A i, j \in 1..Len(ex) :
                   i < j => \/ ex[i].priority > ex[j].priority
                            \/ /\ ex[i].priority = ex[j].priority
                               /\ AddedAt(addOrder, ex[i].listener)
                                    < AddedAt(addOrder, ex[j].listener)
             /\ AllPlain(lastCall') =>
                   {ex[i].listener : i \in 1..Len(ex)}
                     = {sigBindings[i].listener : i \in 1..Len(sigBindings)}]_vars

\* Two listeners of the same priority were dispatched, the one with the
\* larger id first because it was added first.
C22_Witness ==
    /\ lastCall.op = "dispatch"
    /\ Len(lastCall.executed) = 2
    /\ lastCall.executed[1].priority = lastCall.executed[2].priority
    /\ lastCall.executed[1].listener > lastCall.executed[2].listener

C24_StopPropagation ==
    [][(lastCall'.op = "dispatch" /\ ~disposed /\ sigActive) =>
         LET ex == lastCall'.executed
             n == Len(sigBindings)
         IN  /\ Len(ex) <= n
             /\ \A i \in 1..Len(ex) :
                   /\ ex[i].listener = sigBindings[n + 1 - i].listener
                   /\ ex[i].act \in {"halt", "false"} => i = Len(ex)
             /\ AllPlain(lastCall') => Len(ex) = n]_vars

\* The first of two listeners called halt() and the second was not
\* executed.
C24_Witness ==
    /\ lastCall.op = "dispatch"
    /\ Len(sigBindings) = 2
    /\ Len(lastCall.executed) = 1
    /\ lastCall.executed[1].act = "halt"
    /\ ~shouldPropagate

\* C25 as stated: add()/addOnce() executes the listener with the parameters
\* of the most recent dispatch when memorize is true and the signal has been
\* dispatched (and not forgotten since), and does not execute it otherwise.
C25_MemorizeMostRecent ==
    [][(lastCall'.op \in {"add", "addOnce"} /\ ~disposed /\ ~lastCall'.threw) =>
         IF memorize /\ ~lastDispatch.isNull
         THEN Len(lastCall'.executed) = 1 /\ lastCall'.args = lastDispatch
         ELSE lastCall'.executed = <<>>]_vars

\* C25 amended: add()/addOnce() executes the listener when memorize is true
\* and a dispatch was made while memorize was true (and not forgotten
\* since), with the parameters of the latest such dispatch, and does not
\* execute it otherwise.
C25_Memorize ==
    [][(lastCall'.op \in {"add", "addOnce"} /\ ~disposed /\ ~lastCall'.threw) =>
         IF memorize /\ ~memorized.isNull
         THEN /\ Len(lastCall'.executed) = 1
              /\ lastCall'.executed[1].listener = lastCall'.listener
              /\ lastCall'.args = memorized
         ELSE lastCall'.executed = <<>>]_vars

\* add() replayed the parameters of a memorized dispatch although a later
\* dispatch, made with memorize false, had other parameters.
C25_Witness ==
    /\ lastCall.op \in {"add", "addOnce"}
    /\ Len(lastCall.executed) = 1
    /\ ~lastDispatch.isNull
    /\ lastCall.args # lastDispatch

SignalMethods ==
    {"add", "addOnce", "remove", "removeAll", "has", "getNumListeners", "dispatch", "halt",
     "forget"}

\* C26: after dispose() every method of the signal throws.
C26_DisposedThrows ==
    (disposed /\ lastCall.op \in SignalMethods) => lastCall.threw

\* halt() or forget() was called on a disposed signal and returned.
C26_Witness ==
    /\ disposed
    /\ lastCall.op \in {"halt", "forget"}
    /\ ~lastCall.threw

\* C27: while active is false, dispatch executes no listener and leaves the
\* bindings and the memorized parameters as they are.
C27_InactiveDispatch ==
    [][(lastCall'.op = "dispatch" /\ ~disposed /\ ~sigActive) =>
         /\ lastCall'.executed = <<>>
         /\ sigBindings' = sigBindings
         /\ prevParams' = prevParams]_vars

\* An inactive signal with a listener and memorized parameters was
\* dispatched with other parameters.
C27_Witness ==
    /\ lastCall.op = "dispatch"
    /\ ~disposed
    /\ ~sigActive
    /\ memorize
    /\ sigBindings # <<>>
    /\ ~prevParams.isNull
    /\ lastCall.args # prevParams

\* No listener has two bindings
NoDuplicates(bs) ==
    \A i, j \in 1..Len(bs) : bs[i].listener = bs[j].listener => i = j

\* The step is add() or addOnce() of a listener that is bound
ReAdds ==
    /\ ~disposed
    /\ lastCall'.op \in {"add", "addOnce"}
    /\ Has(sigBindings, lastCall'.listener)

\* The mode of the call is the mode of the listener's binding
SameMode ==
    sigBindings[IndexOfListener(sigBindings, lastCall'.listener)].isOnce
        = (lastCall'.op = "addOnce")

\* C37 as stated: a signal never holds two bindings of one listener;
\* adding a bound listener again in the same mode does not throw and leaves
\* the number of listeners as it is; adding it in the other mode throws and
\* leaves the bindings as they are.
C37_NoDuplicateBindingsAsStated ==
    [][/\ NoDuplicates(sigBindings')
       /\ ReAdds =>
             IF SameMode
             THEN ~lastCall'.threw /\ Len(sigBindings') = Len(sigBindings)
             ELSE lastCall'.threw /\ sigBindings' = sigBindings]_vars

\* C37 amended: as above, but adding a bound listener again in the same
\* mode leaves the bindings as they are only when nothing is replayed; when
\* the memorized parameters are replayed to a binding made by addOnce, that
\* binding is detached and the number of listeners is smaller by one.
C37_NoDuplicateBindings ==
    [][/\ NoDuplicates(sigBindings')
       /\ ReAdds =>
             IF SameMode
             THEN /\ ~lastCall'.threw
                  /\ sigBindings' =
                        IF lastCall'.executed # <<>> /\ lastCall'.op = "addOnce"
                        THEN WithoutListener(sigBindings, lastCall'.listener)
                        ELSE sigBindings
             ELSE lastCall'.threw /\ sigBindings' = sigBindings]_vars

\* add() of a listener bound by addOnce threw and the binding is still
\* there, next to another one
C37_Witness ==
    /\ lastCall.op = "add" /\ lastCall.threw
    /\ Has(sigBindings, lastCall.listener)
    /\ sigBindings[IndexOfListener(sigBindings, lastCall.listener)].isOnce
    /\ Len(sigBindings) = 2

\* The listeners a call executed, in order
ExecutedListeners(call) == [i \in 1..Len(call.executed) |-> call.executed[i].listener]

\* The listeners of the bindings from the end of the list to its start,
\* which is the order of a dispatch
DispatchOrder(bs) == [i \in 1..Len(bs) |-> bs[Len(bs) + 1 - i].listener]

\* C38: a dispatch goes through the bindings as they were when it started.
\* A listener that another listener adds during the dispatch is bound
\* afterwards but is not executed by that dispatch (memorize off); a
\* listener that a listener executed before it removes during the dispatch
\* is not executed by that dispatch; every other listener bound at the start
\* is executed, in the order of the start.
C38_AddRemoveDuringDispatch ==
    [][(lastCall'.op = "dispatch" /\ lastCall'.listener # 0) =>
         LET target == lastCall'.listener
             ex == ExecutedListeners(lastCall')
             start == DispatchOrder(sigBindings)
         IN  IF Has(sigBindings, target)
             THEN /\ ~Has(sigBindings', target)
                  /\ \E k \in 1..Len(ex) :
                        /\ lastCall'.executed[k].act = "remove"
                        /\ \A j \in (k + 1)..Len(ex) : ex[j] # target
                        /\ ex = SelectSeq(start, LAMBDA l : l # target)
                           \/ (ex = start /\ \E j \in 1..(k - 1) : ex[j] = target)
             ELSE /\ Has(sigBindings', target)
                  /\ ~memorize => (ex = start /\ \A j \in 1..Len(ex) : ex[j] # target)]_vars

\* The first listener of the dispatch removed the second one, which was not
\* executed and is not bound any more
C38_Witness ==
    /\ lastCall.op = "dispatch" /\ lastCall.listener # 0
    /\ Len(lastCall.executed) = 1
    /\ lastCall.executed[1].act = "remove"
    /\ lastCall.executed[1].listener # lastCall.listener
    /\ ~Has(sigBindings, lastCall.listener)
    /\ Len(sigBindings) = 1
\* ------------------------------------------------------------------------
\* Properties of CommandsService
\* ------------------------------------------------------------------------

\* The places of the events of one kind in a call
EventsAt(call, event) == {i \in 1..Len(call.events) : call.events[i].event = event}

\* C39: whenever executeCommand or tryExecuteCommand is called with a
\* beforeExecuteCommandHook and the name resolves to a command, the hook is
\* called exactly once, with that command and that name, before the
\* command's execute.
C39_BeforeExecuteHook ==
    \A c \in 1..Len(commandHistory) :
        LET call == commandHistory[c]
        IN  (/\ call.entry \in {"executeCommand", "tryExecuteCommand"}
             /\ call.hook
             /\ ResolveCommand(call.commandName) # "") =>
                /\ Cardinality(EventsAt(call, "hook")) = 1
                /\ \A i \in EventsAt(call, "hook") :
                      /\ call.events[i] = HookEvent(ResolveCommand(call.commandName),
                                                    call.commandName)
                      /\ \A j \in EventsAt(call, "execute") : i < j

\* executeCommand was given a hook and ran the command without calling it,
\* after executeCommandUnchecked with the same arguments had called it
C39_Witness ==
    /\ Len(commandHistory) = 2
    /\ commandHistory[1].entry = "executeCommandUnchecked"
    /\ commandHistory[1].hook /\ commandHistory[1].commandName = "build"
    /\ EventsAt(commandHistory[1], "hook") = {1}
    /\ commandHistory[2].entry = "executeCommand"
    /\ commandHistory[2].hook /\ commandHistory[2].commandName = "build"
    /\ commandHistory[2].result = "true"
    /\ EventsAt(commandHistory[2], "execute") # {}
    /\ EventsAt(commandHistory[2], "hook") = {}
====
